---------------------------- MODULE Spec2Model ----------------------------
(***************************************************************************)
(* Verification model of insurancify-pro: the PDF parsing pipeline         *)
(* (backend/src/pdf_parser.py) and the full-text search indexes            *)
(* (backend/src/search_engine.py, backend/src/search.py).                  *)
(*                                                                         *)
(* Confidence values are held in thousandths (0 .. 1000 for 0.0 .. 1.0).   *)
(* A message is the pair <<fixed text, str(e)>>; the second component is   *)
(* "" for a message without an embedded exception text.                    *)
(***************************************************************************)
EXTENDS Integers, Sequences, FiniteSets, TLC

VARIABLES
    pc,               \* position of the parse_pdf call
    doc,              \* what the two engines find in the file passed in
    primaryResult,    \* value returned by _parse_with_pdfplumber
    result,           \* value parse_pdf returns
    secondaryInvoked, \* _parse_with_pypdf2 was called in this call
    extractRuns,      \* number of _extract_metadata runs in this call
    docIndex,         \* rows of the FTS5 table document_search, by rowid
    store,            \* text of each document the callers hold stored
    reindexPc,        \* position of the reindex_all_documents call
    preIndex,         \* document_search as it was when the rebuild began
    seen,             \* <<answer to the last search>>, <<>> if there is none
    reindexResult,    \* how the last reindex_all_documents call ended
    overlapped,       \* an index or remove call ran inside the last rebuild
    deleted,          \* documents delete_policy completed for, not indexed since
    policies,         \* rows of the policies table
    policyIndex,      \* rows of the FTS5 table policy_search, by rowid
    rebuildResult,    \* <<value rebuild_search_index returned>>, <<>> if outdated
    files,            \* rows of the table policy_files, by id
    ingested,         \* <<the last ingest_file call and its result>>, <<>> if outdated
    found,            \* <<the last search_policies call and its result>>, <<>> if outdated
    names,            \* the values of each column get_search_suggestions reads
    suggested,        \* <<the last get_search_suggestions call and its result>>
    carrierTable,     \* rows of the table carriers_map
    configFile,       \* <<content of config/carriers_map.json>>, <<>> if there is no file
    carrierMap,       \* <<self._carrier_map>>, <<>> while it is None
    loads,            \* number of times the parser read the carrier map's source
    normalized,       \* <<the last _normalize_carrier call and its result>>
    remembered,       \* <<an earlier _normalize_carrier call and its result>>
    dateStr,          \* the argument of the _parse_date call
    parsed,           \* <<value _parse_date returned>>, <<>> before it returns
    metaText,         \* the argument of the _extract_metadata call
    metadata,         \* <<value _extract_metadata returned>>, <<>> before it returns
    queryStr,         \* the argument of the SearchService._prepare_fts_query call
    prepared,         \* <<value it returned>>, <<>> before it returns
    daysLeft,         \* days until each policy's expiration_date
    agentEmail,       \* whether each policy's agent has an email address
    enabled,          \* EmailService.enabled
    alertRows,        \* committed rows of the table alerts, by id
    pendingRows,      \* Alert objects added to self.db and not yet flushed
    dirtySent,        \* ids of alerts whose is_sent was set in self.db, not yet flushed
    thread,           \* where each thread is in check_policy_renewals / send_renewal_alerts
    emailed,          \* ids of the alerts for which send_email returned True
    migrationFiles,   \* stems of the *.sql files of the migrations directory
    schemaVersion,    \* versions in the table schema_version
    migration,        \* the run_migrations call under way or last made
    migrated          \* <<value run_migrations returned>>, <<>> before it returns

parseVars  == <<pc, doc, primaryResult, result, secondaryInvoked, extractRuns>>
indexVars  == <<docIndex, store, reindexPc, preIndex, seen, reindexResult, overlapped,
               deleted>>
policyVars == <<policies, policyIndex, rebuildResult, files, ingested, found, names,
               suggested>>
carrierVars == <<carrierTable, configFile, carrierMap, loads, normalized, remembered>>
dateVars   == <<dateStr, parsed>>
metaVars   == <<metaText, metadata>>
ftsVars    == <<queryStr, prepared>>
alertVars  == <<daysLeft, agentEmail, enabled, alertRows, pendingRows, dirtySent, thread,
               emailed>>
migrationVars == <<migrationFiles, schemaVersion, migration, migrated>>
otherVars  == <<carrierVars, dateVars, metaVars, ftsVars, alertVars, migrationVars>>
vars       == <<parseVars, indexVars, policyVars, otherVars>>

None == "none"

Min(a, b) == IF a < b THEN a ELSE b

(***************************************************************************)
(* PDF parsing pipeline                                                    *)
(***************************************************************************)

\* Lengths of extracted text the model feeds in: 0 .. MaxLenStep thousands of
\* characters, and the values around 50 and 1000.
MaxLenStep == 2
SampleLens == {0, 1, 50, 51, 999, 1001} \cup {k * 1000 : k \in 0..MaxLenStep}

\* Extracted text: its length, and whether strip() leaves nothing.
Texts == {[len |-> n, blank |-> b] : n \in SampleLens, b \in BOOLEAN} \
         ({[len |-> 0, blank |-> FALSE]} \cup
          {[len |-> n, blank |-> TRUE] : n \in SampleLens \ {0, 1}})

EmptyText == [len |-> 0, blank |-> TRUE]

\* str(e) of the exceptions of the pipeline: the file is missing, or an
\* engine cannot read it
NoSuchFile == "No such file or directory"
OpenErrors == {NoSuchFile, "No /Root object"}
AttrError == "'PDFParser' object has no attribute '_calculate_confidence'"

\* What the engines find in one file.  pOpen/sOpen: "ok" or the str(e) of
\* the exception raised while opening or reading; pEnc: pdf.metadata has a
\* truthy 'Encrypt'; sEnc: reader.is_encrypted; pText/sText: the joined page
\* texts (pages whose extraction raised are skipped by the engines).
\* A missing file is missing for both engines.
Docs == {d \in [pOpen : {"ok"} \cup OpenErrors, pEnc : BOOLEAN, pText : Texts,
                sOpen : {"ok"} \cup OpenErrors, sEnc : BOOLEAN, sText : Texts] :
            (d.pOpen = NoSuchFile) <=> (d.sOpen = NoSuchFile)}

MkResult(err, txt, conf, msg) ==
    [error |-> err, text |-> txt, confidence |-> conf, message |-> msg]

NoResult == MkResult(None, EmptyText, 0, <<"", "">>)

PasswordProtected ==
    MkResult("Password protected PDF", EmptyText, 0, <<"password-protected PDF", "">>)

ImageOnly ==
    MkResult("Image-only PDF", EmptyText, 0, <<"image-only PDF; OCR disabled", "">>)

\* the except clause of _parse_with_pdfplumber
PdfplumberFailed(e) == MkResult(e, EmptyText, 0, <<"pdfplumber parsing failed: ", e>>)

\* the except clause of _parse_with_pypdf2
Pypdf2Failed_noText(e) == MkResult(e, EmptyText, 0, <<"PyPDF2 parsing failed", "">>)

Pypdf2Failed(e) == MkResult(e, EmptyText, 0, <<"PyPDF2 parsing failed: ", e>>)

\* the except clause of parse_pdf
ParseFailed(e) == MkResult(e, EmptyText, 0, <<"PDF parsing failed: ", e>>)

\* self._calculate_confidence(metadata, full_text): PDFParser defines no such
\* method, so the call raises AttributeError.  [raised, value (thousandths)].
CalculateConfidence(txt) == [raised |-> TRUE, error |-> AttrError, value |-> 0]

\* How a block ends: exc is the str(e) of the exception that leaves it (None
\* when it returns), ret the value returned.
Returns(r) == [exc |-> None, ret |-> r]
Raises(e)  == [exc |-> e, ret |-> NoResult]

\* the try block of _parse_with_pdfplumber
PdfplumberBody(d) ==
    IF d.pOpen # "ok" THEN Raises(d.pOpen)
    ELSE IF d.pEnc THEN Returns(PasswordProtected)
    ELSE IF d.pText.blank THEN Returns(ImageOnly)
    ELSE LET c == CalculateConfidence(d.pText) IN
         IF c.raised THEN Raises(c.error)
         ELSE Returns(MkResult(None, d.pText, c.value,
                      IF c.value > 0 THEN <<"successfully parsed", "">>
                                     ELSE <<"low confidence parsing", "">>))

\* _parse_with_pdfplumber: the try block under except Exception
ParseWithPdfplumber(d) ==
    LET b == PdfplumberBody(d) IN
    IF b.exc # None THEN Returns(PdfplumberFailed(b.exc)) ELSE b

\* the try block of _parse_with_pypdf2
Pypdf2Body(d) ==
    IF d.sOpen # "ok" THEN Raises(d.sOpen)
    ELSE IF d.sEnc THEN Returns(PasswordProtected)
    ELSE IF d.sText.blank THEN Returns(ImageOnly)
    ELSE LET c == CalculateConfidence(d.sText) IN
         IF c.raised THEN Raises(c.error)
         ELSE Returns(MkResult(None, d.sText, c.value,
                      IF c.value > 0 THEN <<"successfully parsed with PyPDF2", "">>
                                     ELSE <<"low confidence parsing", "">>))

\* _parse_with_pypdf2: the try block under except Exception
ParseWithPypdf2(d) ==
    LET b == Pypdf2Body(d) IN
    IF b.exc # None THEN Returns(Pypdf2Failed(b.exc)) ELSE b

\* _extract_metadata is reached by an engine that opened the file, found it
\* unencrypted and extracted text that is not blank
PrimaryExtracts(d)   == d.pOpen = "ok" /\ ~d.pEnc /\ ~d.pText.blank
SecondaryExtracts(d) == d.sOpen = "ok" /\ ~d.sEnc /\ ~d.sText.blank

\* parse_pdf, line 117: the primary result is returned as it is
PrimaryAccepted_always(r) == r.confidence >= 0

PrimaryAccepted(r) == r.confidence > 0

\* parse_pdf is called with a file
ParseCall ==
    /\ pc = "idle"
    /\ \E d \in Docs : doc' = d
    /\ pc' = "primary"
    /\ UNCHANGED <<primaryResult, result, secondaryInvoked, extractRuns>>
    /\ UNCHANGED <<indexVars, policyVars, otherVars>>

\* result = self._parse_with_pdfplumber(file_path)
\* if result["confidence"] > 0: return result
RunPrimary ==
    /\ pc = "primary"
    /\ LET o == ParseWithPdfplumber(doc) IN
         IF o.exc # None
            THEN /\ pc' = "done"
                 /\ result' = ParseFailed(o.exc)
                 /\ primaryResult' = primaryResult
            ELSE /\ primaryResult' = o.ret
                 /\ IF PrimaryAccepted(o.ret)
                       THEN pc' = "done" /\ result' = o.ret
                       ELSE pc' = "secondary" /\ result' = result
    /\ extractRuns' = extractRuns + (IF PrimaryExtracts(doc) THEN 1 ELSE 0)
    /\ UNCHANGED <<doc, secondaryInvoked, indexVars, policyVars, otherVars>>

\* return self._parse_with_pypdf2(file_path)
RunSecondary ==
    /\ pc = "secondary"
    /\ secondaryInvoked' = TRUE
    /\ LET o == ParseWithPypdf2(doc) IN
         result' = IF o.exc # None THEN ParseFailed(o.exc) ELSE o.ret
    /\ extractRuns' = extractRuns + (IF SecondaryExtracts(doc) THEN 1 ELSE 0)
    /\ pc' = "done"
    /\ UNCHANGED <<doc, primaryResult, indexVars, policyVars, otherVars>>

InitDoc == [pOpen |-> "ok", pEnc |-> FALSE, pText |-> EmptyText,
            sOpen |-> "ok", sEnc |-> FALSE, sText |-> EmptyText]

\* the caller has the result; the parser is ready for the next file
ParseReturn ==
    /\ pc = "done"
    /\ pc' = "idle"
    /\ doc' = InitDoc
    /\ primaryResult' = NoResult
    /\ result' = NoResult
    /\ secondaryInvoked' = FALSE
    /\ extractRuns' = 0
    /\ UNCHANGED <<indexVars, policyVars, otherVars>>

(***************************************************************************)
(* SearchEngine: the FTS5 table document_search                            *)
(***************************************************************************)

MaxDoc  == 2      \* document ids 1 .. MaxDoc
MaxRows == 2      \* rows the model lets document_search grow to

DocIds == 1..MaxDoc

\* A text is a sequence of runs: run [ch, n] stands for n >= 1 copies of the
\* character ch.  The characters are word characters, the blank, a character
\* outside [\w\s\-.,] and the period.
WordChars == {"a", "b"}

Run(c, k) == [ch |-> c, n |-> k]

\* len(text)
RECURSIVE TextLen(_)
TextLen(t) == IF t = <<>> THEN 0 ELSE t[1].n + TextLen(Tail(t))

\* texts passed as content by the callers of the small model
RawContents == {<<Run("a", 1)>>,
                <<Run("b", 1), Run(" ", 2), Run("a", 1), Run("!", 1)>>}

\* re.sub(r'\s+', ' ', text)
CollapseSpaces(t) ==
    [i \in 1..Len(t) |-> IF t[i].ch = " " THEN Run(" ", 1) ELSE t[i]]

\* re.sub(r'[^\w\s\-.,]', ' ', text)
BlankSpecials(t) ==
    [i \in 1..Len(t) |->
        IF t[i].ch \in WordChars \cup {" ", "-", ".", ","} THEN t[i] ELSE Run(" ", t[i].n)]

\* text[:k]
RECURSIVE Take(_, _)
Take(t, k) ==
    IF t = <<>> \/ k <= 0 THEN <<>>
    ELSE IF t[1].n <= k THEN <<t[1]>> \o Take(Tail(t), k - t[1].n)
    ELSE <<Run(t[1].ch, k)>>

\* str.strip()
RECURSIVE Strip(_)
Strip(t) ==
    IF t = <<>> THEN t
    ELSE IF t[1].ch = " " THEN Strip(Tail(t))
    ELSE IF t[Len(t)].ch = " " THEN Strip(SubSeq(t, 1, Len(t) - 1))
    ELSE t

\* the length above which _clean_text_for_indexing cuts the text
ContentLimit == 50000

\* what _clean_text_for_indexing puts after a text it has cut
Ellipsis == <<Run(".", 3)>>

\* SearchEngine._clean_text_for_indexing
CleanTextForIndexing(t) ==
    IF t = <<>> THEN <<>>
    ELSE LET u == BlankSpecials(CollapseSpaces(t))
             v == IF TextLen(u) > ContentLimit
                     THEN Take(u, ContentLimit) \o Ellipsis
                     ELSE u
         IN  Strip(v)

\* the rows a statement leaves: DELETE ... WHERE document_id = ?
RowsWithout_first(rows, d) ==
    IF \E i \in DOMAIN rows : rows[i].document_id = d
       THEN LET k == CHOOSE i \in DOMAIN rows :
                        /\ rows[i].document_id = d
                        /\ \A j \in 1..(i - 1) : rows[j].document_id # d
            IN  SubSeq(rows, 1, k - 1) \o SubSeq(rows, k + 1, Len(rows))
       ELSE rows

RowsWithout_upTo(rows, d) == SelectSeq(rows, LAMBDA r : r.document_id > d)

RowsWithout(rows, d) == SelectSeq(rows, LAMBDA r : r.document_id # d)

\* INSERT OR REPLACE INTO document_search: an fts5 table has no key but its
\* rowid, which the statement does not give, so the row is added as a new row
InsertOrReplace(rows, row) == Append(rows, row)

\* store[d] of a document the callers do not hold
NoText == <<Run(None, 0)>>

\* the documents the callers hold as stored and not deleted
Active == {d \in DocIds : store[d] # NoText}

\* SearchEngine.index_document, called for a document the caller has stored
\* with a text of C: one statement and its commit on a connection of its own
\* (a sqlite3 error is logged and raised again, the table staying as it was)
IndexDocumentOf(C) ==
    \E d \in DocIds, c \in C :
        /\ Len(docIndex) < MaxRows
        /\ store' = [store EXCEPT ![d] = c]
        /\ docIndex' = InsertOrReplace(docIndex,
                           [document_id |-> d, content |-> CleanTextForIndexing(c)])
        /\ overlapped' = (overlapped \/ reindexPc # "idle")
        /\ deleted' = deleted \ {d}
        /\ UNCHANGED <<reindexPc, preIndex, seen, reindexResult, parseVars, policyVars, otherVars>>

IndexDocument == IndexDocumentOf(RawContents)

\* SearchEngine.remove_document, called for a document the caller deletes:
\* one statement and its commit on a connection of its own
RemoveDocument ==
    \E d \in DocIds :
        /\ store' = [store EXCEPT ![d] = NoText]
        /\ docIndex' = RowsWithout(docIndex, d)
        /\ overlapped' = (overlapped \/ reindexPc # "idle")
        /\ UNCHANGED <<reindexPc, preIndex, seen, reindexResult, deleted,
                       parseVars, policyVars, otherVars>>

(***************************************************************************)
(* SearchEngine: queries                                                   *)
(***************************************************************************)

\* A query is a sequence of characters: word characters, the blank, the
\* double quote and a character that is none of these.
Quote == "\""

Queries == {<<>>, <<" ", " ">>, <<"a">>, <<"b">>, <<"!", " ", "a">>,
            <<Quote, "a", Quote>>}

\* LIMIT and OFFSET of a search
Limits  == {1, 50}
Offsets == {0, 1}

\* str.strip() of a sequence of characters
RECURSIVE StripChars(_)
StripChars(q) ==
    IF q = <<>> THEN q
    ELSE IF q[1] = " " THEN StripChars(Tail(q))
    ELSE IF q[Len(q)] = " " THEN StripChars(SubSeq(q, 1, Len(q) - 1))
    ELSE q

\* str.split(): the maximal runs of characters that are not blank
RECURSIVE Split(_)
Split(q) ==
    IF q = <<>> THEN <<>>
    ELSE IF q[1] = " " THEN Split(Tail(q))
    ELSE LET rest == Split(Tail(q)) IN
         IF Len(q) > 1 /\ q[2] # " "
            THEN <<(<<q[1]>> \o rest[1])>> \o Tail(rest)
            ELSE <<(<<q[1]>>)>> \o rest

\* re.sub(r'[^\w\-]', '', term)
CleanTerm(w) == SelectSeq(w, LAMBDA c : c \in WordChars \cup {"-"})

\* An FTS5 expression as _prepare_fts_query builds it: prefixes is the list
\* of the words w of its terms w*, joined by OR; when the list is empty the
\* expression is the text verbatim.
FtsQuery(ws, txt) == [prefixes |-> ws, verbatim |-> txt]

\* SearchEngine._prepare_fts_query
PrepareFtsQuery(query) ==
    IF query = <<>> THEN FtsQuery(<<>>, <<>>)
    ELSE LET q == StripChars(query) IN
         IF \E i \in DOMAIN q : q[i] = Quote THEN FtsQuery(<<>>, q)
         ELSE LET terms == Split(q)
                  cleaned == [i \in DOMAIN terms |-> CleanTerm(terms[i])]
                  fts_terms == SelectSeq(cleaned, LAMBDA w : w # <<>>)
              IN  FtsQuery(fts_terms, q)

\* the word w of the text t, read from run i on with used characters of the
\* run consumed; whole: the token ends where w ends
RECURSIVE MatchAt(_, _, _, _, _)
MatchAt(t, i, used, w, whole) ==
    IF w = <<>>
       THEN ~whole \/ (used = 0 /\ (i > Len(t) \/ t[i].ch \notin WordChars))
    ELSE IF i > Len(t) THEN FALSE
    ELSE IF t[i].ch # w[1] THEN FALSE
    ELSE IF used + 1 < t[i].n THEN MatchAt(t, i, used + 1, Tail(w), whole)
    ELSE MatchAt(t, i + 1, 0, Tail(w), whole)

\* the runs of t at which a token begins that w matches (as a prefix, or as
\* the whole token)
TokenHits(t, w, whole) ==
    {i \in 1..Len(t) : /\ t[i].ch \in WordChars
                       /\ (i = 1 \/ t[i - 1].ch \notin WordChars)
                       /\ MatchAt(t, i, 0, w, whole)}

\* a verbatim expression fts5 can parse: one quoted word
IsPhrase(txt) ==
    /\ Len(txt) >= 3
    /\ txt[1] = Quote /\ txt[Len(txt)] = Quote
    /\ \A i \in 2..(Len(txt) - 1) : txt[i] \in WordChars

\* fts5 rejects the expression: the empty one, an unbalanced quote, a
\* character outside its syntax
FtsSyntaxError(fts) == fts.prefixes = <<>> /\ ~IsPhrase(fts.verbatim)

\* the number of tokens of the text t the expression matches
FtsHits(t, fts) ==
    IF fts.prefixes # <<>>
       THEN Cardinality(UNION {TokenHits(t, fts.prefixes[k], FALSE) :
                                   k \in DOMAIN fts.prefixes})
       ELSE Cardinality(TokenHits(t, SubSeq(fts.verbatim, 2, Len(fts.verbatim) - 1), TRUE))

\* bm25(document_search): below zero, and lower the better the row matches
\* (here: the more of its tokens match)
Bm25(t, fts) == 0 - FtsHits(t, fts)

\* the positions of keys in ascending order of key, equal keys in the order
\* they have in keys
StableAscending(keys) ==
    [k \in 1..Len(keys) |->
        CHOOSE i \in 1..Len(keys) :
            Cardinality({j \in 1..Len(keys) :
                            keys[j] < keys[i] \/ (keys[j] = keys[i] /\ j < i)}) = k - 1]

\* the positions of keys in descending order of key, equal keys in the order
\* they have in keys: sorted(..., reverse=True)
StableDescending(keys) ==
    [k \in 1..Len(keys) |->
        CHOOSE i \in 1..Len(keys) :
            Cardinality({j \in 1..Len(keys) :
                            keys[j] > keys[i] \/ (keys[j] = keys[i] /\ j < i)}) = k - 1]

\* s[offset : offset + limit]
Slice(s, offset, limit) == SubSeq(s, offset + 1, Min(Len(s), offset + limit))

\* SELECT ... WHERE document_search MATCH ? ORDER BY score LIMIT ? OFFSET ?
\* (rows of equal score come in rowid order)
SelectMatching(rows, fts, limit, offset) ==
    LET hits   == SelectSeq(rows, LAMBDA r : FtsHits(r.content, fts) > 0)
        scored == [i \in DOMAIN hits |->
                      [document_id |-> hits[i].document_id,
                       score |-> Bm25(hits[i].content, fts)]]
        order  == StableAscending([i \in DOMAIN scored |-> scored[i].score])
    IN  Slice([k \in DOMAIN order |-> scored[order[k]]], offset, limit)

\* str(e) of the errors of a search: fts5 rejects the expression, or the
\* database cannot be read
SyntaxError == "fts5: syntax error"
DbErrors == {"database is locked"}

\* the try block of SearchEngine.search; dbErr: None, or the error sqlite3
\* raises for the connection or the statement
SearchBody(rows, query, limit, offset, dbErr) ==
    LET fts == PrepareFtsQuery(query) IN
    IF dbErr # None THEN [exc |-> dbErr, ret |-> <<>>]
    ELSE IF FtsSyntaxError(fts) THEN [exc |-> SyntaxError, ret |-> <<>>]
    ELSE [exc |-> None, ret |-> SelectMatching(rows, fts, limit, offset)]

\* SearchEngine.search: the try block under except Exception: return [].
\* error keeps the str(e) the except clause logged; exc is what the caller
\* gets raised, ret what it gets returned.
SearchCall_raise(rows, query, limit, offset, dbErr) ==
    LET b == SearchBody(rows, query, limit, offset, dbErr) IN
    [error |-> b.exc, exc |-> b.exc, ret |-> b.ret]

SearchCall(rows, query, limit, offset, dbErr) ==
    LET b == SearchBody(rows, query, limit, offset, dbErr) IN
    [error |-> b.exc, exc |-> None, ret |-> b.ret]

\* what a search without database error returns
SearchResult(rows, query, limit, offset) ==
    SearchCall(rows, query, limit, offset, None).ret

\* the document_id of the results of a search
ResultIds(ret) == {ret[i].document_id : i \in DOMAIN ret}

\* SearchEngine.search on its own connection, at any moment; seen keeps the
\* call and its answer until a rebuild begins or ends
Search ==
    \E q \in Queries, limit \in Limits, offset \in Offsets, dbErr \in {None} \cup DbErrors :
        /\ seen' = <<[q |-> q, limit |-> limit, offset |-> offset,
                      out |-> SearchCall(docIndex, q, limit, offset, dbErr)]>>
        /\ UNCHANGED <<docIndex, store, reindexPc, preIndex, reindexResult, overlapped,
                       deleted, parseVars, policyVars, otherVars>>

\* DELETE /policies/{policy_id} (api/v1/routes.py): the document is found;
\* with hard_delete its rows are removed from the index and the record from
\* the database, without it the record is marked and nothing else is done
DeletePolicy ==
    \E d \in DocIds, hard_delete \in BOOLEAN :
        /\ store[d] # NoText
        /\ IF hard_delete
              THEN /\ docIndex' = RowsWithout(docIndex, d)
                   /\ store' = [store EXCEPT ![d] = NoText]
              ELSE UNCHANGED <<docIndex, store>>
        /\ deleted' = deleted \cup {d}
        /\ overlapped' = (overlapped \/ (hard_delete /\ reindexPc # "idle"))
        /\ UNCHANGED <<reindexPc, preIndex, seen, reindexResult, parseVars, policyVars, otherVars>>

\* Texts around the length at which _clean_text_for_indexing cuts: up to
\* MaxOver characters below and above ContentLimit, and texts that end in
\* characters the cleaning turns into blanks.
MaxOver == 2

LongContents ==
    {<<Run("a", ContentLimit + k)>> : k \in (0 - MaxOver)..MaxOver} \cup
    {<<Run("a", ContentLimit - 1), Run("!", k)>> : k \in 1..MaxOver} \cup
    {<<Run("a", 1), Run(" ", k), Run("b", ContentLimit)>> : k \in 1..MaxOver}

\* index_document called with a long text
IndexLongDocument == IndexDocumentOf(LongContents)

\* SearchEngine.reindex_all_documents, lines 283-286: DELETE FROM
\* document_search and commit, on a connection of its own
ReindexClear ==
    /\ reindexPc = "idle"
    /\ reindexPc' = "cleared"
    /\ preIndex' = docIndex
    /\ seen' = <<>>
    /\ docIndex' = <<>>
    /\ overlapped' = FALSE
    /\ UNCHANGED <<store, reindexResult, deleted, parseVars, policyVars, otherVars>>

\* the attributes models.PolicyFile declares (models.py, lines 69-79)
PolicyFileColumns ==
    {"id", "policy_id", "filename", "original_filename", "file_path", "file_size",
     "content_type", "parsed_text", "parsed_metadata_json", "confidence_score",
     "created_at"}

\* SearchEngine.reindex_all_documents, lines 289-314: the query for the
\* active documents names PolicyFile.is_deleted, which the class lacks; the
\* AttributeError is logged and raised again with the table left empty.
\* The loop over the active documents (one index_document call each) is
\* never reached.
ReindexQuery ==
    /\ reindexPc = "cleared"
    /\ "is_deleted" \notin PolicyFileColumns
    /\ reindexPc' = "idle"
    /\ reindexResult' = "raised"
    /\ preIndex' = <<>>
    /\ seen' = <<>>
    /\ UNCHANGED <<docIndex, store, overlapped, deleted, parseVars, policyVars, otherVars>>

(***************************************************************************)
(* SearchService and FileIngestionService: the FTS5 table policy_search    *)
(***************************************************************************)

MaxPolicy == 2    \* policy ids 1 .. MaxPolicy
MaxFiles  == 2    \* rows the model lets policy_files grow to

PolicyNumbers == 1..MaxPolicy

\* the ascending sequence of the members of a set of numbers
RECURSIVE SortedSeq(_)
SortedSeq(S) ==
    IF S = {} THEN <<>>
    ELSE LET m == CHOOSE x \in S : \A y \in S : x <= y
         IN  <<m>> \o SortedSeq(S \ {m})

\* UIBackendAdapter.add_policy: policy_number is unique, a second policy of
\* the same number fails and is rolled back
AddPolicy ==
    \E p \in PolicyNumbers :
        /\ policies' = IF p \in policies THEN policies ELSE policies \cup {p}
        /\ rebuildResult' = <<>>
        /\ ingested' = <<>>
        /\ found' = <<>>
        /\ UNCHANGED <<policyIndex, files, names, suggested, parseVars, indexVars, otherVars>>

\* the files of policy p that have parsed text: the text parts
\* rebuild_search_index joins into the row of p
FilesWithText(p) ==
    {f \in DOMAIN files : files[f].policy_id = p /\ files[f].parsed_text.len > 0}

\* the rows rebuild_search_index inserts when the policies of failing raise
RebuiltRows(all, failing) ==
    LET done == SortedSeq(all \ failing)
    IN  [i \in 1..Len(done) |-> [policy_id |-> done[i], files |-> FilesWithText(done[i])]]

\* what rebuild_search_index returns after its commit
RebuildSucceeded(all, failing) ==
    [success |-> TRUE, indexed |-> Cardinality(all \ failing)]

\* what rebuild_search_index returns from its outer except clause
RebuildFailed == [success |-> FALSE, indexed |-> 0]

\* SearchService.rebuild_search_index: one transaction of the session.
\* failing: the policies for which a statement inside the loop raises (logged,
\* the loop continues); outerOk: the DELETE, the policy query and the commit
\* succeed, else the transaction is rolled back.
RebuildSearchIndex ==
    \E failing \in SUBSET policies, outerOk \in BOOLEAN :
        /\ policyIndex' = IF outerOk THEN RebuiltRows(policies, failing)
                                     ELSE policyIndex
        /\ rebuildResult' = <<IF outerOk THEN RebuildSucceeded(policies, failing)
                                         ELSE RebuildFailed>>
        /\ ingested' = <<>>
        /\ found' = <<>>
        /\ UNCHANGED <<policies, files, names, suggested, parseVars, indexVars, otherVars>>

\* PDFParser.parse_pdf as a function of what the engines find in the file
ParsePdf(d) ==
    LET p == ParseWithPdfplumber(d) IN
    IF p.exc # None THEN ParseFailed(p.exc)
    ELSE IF PrimaryAccepted(p.ret) THEN p.ret
    ELSE LET q == ParseWithPypdf2(d) IN
         IF q.exc # None THEN ParseFailed(q.exc) ELSE q.ret

\* the files handed to ingest_file: both engines find the same in them, an
\* encryption flag or not, no text or 2000 characters of it
IngestDocs ==
    {d \in Docs : /\ d.pOpen = "ok" /\ d.sOpen = "ok"
                  /\ d.pEnc = d.sEnc /\ d.pText = d.sText
                  /\ d.pText \in {EmptyText, [len |-> 2000, blank |-> FALSE]}}

\* policy_id of a file that is linked to no policy
NoPolicy == 0

\* parsed_data of a file that is not a PDF (ingestion.py, line 63)
NotParsed == MkResult(None, EmptyText, 0, <<"", "">>)

\* the table as the session leaves it at db.close(): what was executed and
\* not committed is rolled back
SessionClose(committed, pending) == committed

\* FileIngestionService._update_search_index: the rows of policy_search in
\* the session after it (the INSERT is executed and not committed)
UpdateSearchIndex(rows, f, policy_id, parsed_text) ==
    IF policy_id = NoPolicy \/ parsed_text.len = 0 THEN rows
    ELSE IF policy_id \notin policies THEN rows
    ELSE Append(rows, [policy_id |-> policy_id, files |-> {f}])

\* FileIngestionService.ingest_file, called without building_id.  stored: the
\* file exists, is not too large, is copied and its row is committed.
IngestFile ==
    \E d \in IngestDocs, pdf \in BOOLEAN, policy_id \in PolicyNumbers \cup {NoPolicy},
       stored \in BOOLEAN :
        /\ Len(files) < MaxFiles
        /\ LET parsed_data == IF pdf THEN ParsePdf(d) ELSE NotParsed
               f == Len(files) + 1
           IN  IF stored
                  THEN /\ files' = Append(files, [policy_id |-> policy_id,
                                                  parsed_text |-> parsed_data.text])
                       /\ policyIndex' =
                              SessionClose(policyIndex,
                                  UpdateSearchIndex(policyIndex, f, policy_id, parsed_data.text))
                       /\ ingested' = <<[success |-> TRUE, file_id |-> f,
                                         policy_id |-> policy_id, pdf |-> pdf, doc |-> d]>>
                  ELSE /\ UNCHANGED <<files, policyIndex>>
                       /\ ingested' = <<[success |-> FALSE, file_id |-> 0,
                                         policy_id |-> policy_id, pdf |-> pdf, doc |-> d]>>
        /\ rebuildResult' = <<>>
        /\ found' = <<>>
        /\ UNCHANGED <<policies, names, suggested, parseVars, indexVars, otherVars>>

\* Queries of the policy search: the empty one, a blank one, one whose only
\* term has two characters, one with a term of three characters
PolicyQueries == {<<>>, <<" ", " ">>, <<"a", "b">>, <<"a", "b", "a">>}

\* the characters SearchService._prepare_fts_query replaces by a blank
SpecialChars == {"(", ")", Quote, "*", "^", ":", "~"}

\* SearchService._prepare_fts_query: the terms of more than two characters,
\* each quoted and joined by OR; the empty list stands for '""'
ServicePrepareFtsQuery_anyLength(query) ==
    LET clean_query == [i \in DOMAIN query |->
                           IF query[i] \in SpecialChars THEN " " ELSE query[i]]
    IN  Split(clean_query)

ServicePrepareFtsQuery(query) ==
    LET clean_query == [i \in DOMAIN query |->
                           IF query[i] \in SpecialChars THEN " " ELSE query[i]]
    IN  SelectSeq(Split(clean_query), LAMBDA w : Len(w) > 2)

\* Ranks are in tenths.  bm25(policy_search) of a matching row is below
\* zero, and lower the better the row matches.
Bm25Ranks == {-2, -1}

\* "rank": 0.5 of a history result
HistoryRank == 5

\* a row the expression does not match
NoMatch == 0

\* SELECT ... WHERE policy_search MATCH :query ORDER BY rank LIMIT :limit;
\* m gives every row its bm25, or NoMatch
FtsRows(rows, m, limit) ==
    LET idx    == SelectSeq([i \in DOMAIN rows |-> i], LAMBDA i : m[i] # NoMatch)
        scored == [k \in DOMAIN idx |-> [policy_id |-> rows[idx[k]].policy_id,
                                         rank |-> m[idx[k]]]]
        order  == StableAscending([k \in DOMAIN scored |-> scored[k].rank])
    IN  Slice([k \in DOMAIN order |-> scored[order[k]]], 0, limit)

\* the result objects of the policies found (lines 59-93): the policies of
\* the table whose id is among those of the rows, each with the rank of its
\* first row
PolicyResults(search_results) ==
    LET ids == SortedSeq({search_results[i].policy_id : i \in DOMAIN search_results}
                             \cap policies)
        FirstRow(p) == CHOOSE i \in DOMAIN search_results :
                           /\ search_results[i].policy_id = p
                           /\ \A j \in 1..(i - 1) : search_results[j].policy_id # p
    IN  [k \in DOMAIN ids |-> [policy_id |-> ids[k],
                               rank |-> search_results[FirstRow(ids[k])].rank,
                               type |-> "policy"]]

\* SearchService._search_policy_history; notes: the policy_id of the history
\* items whose note contains the query, in table order
SearchPolicyHistory(notes, limit) ==
    LET items == SelectSeq(Slice(notes, 0, limit), LAMBDA p : p \in policies)
    IN  [k \in DOMAIN items |-> [policy_id |-> items[k], rank |-> HistoryRank,
                                 type |-> "history"]]

\* the results that are the first of their policy (lines 100-105)
KeepFirst_all(results) == results

KeepFirst(results) ==
    LET first == {i \in DOMAIN results :
                     \A j \in 1..(i - 1) : results[j].policy_id # results[i].policy_id}
    IN  SelectSeq([i \in DOMAIN results |-> IF i \in first THEN results[i] ELSE <<>>],
                  LAMBDA r : r # <<>>)

\* the results search_policies has before it sorts them (lines 30-97): the
\* policy results followed by the history results, or none when the query is
\* blank or the index returns no row
Candidates(query, limit, m, notes) ==
    IF StripChars(query) = <<>> THEN <<>>
    ELSE LET fts_query == ServicePrepareFtsQuery(query)
             search_results == IF fts_query = <<>> THEN <<>>
                               ELSE FtsRows(policyIndex, m, limit)
         IN  IF search_results = <<>> THEN <<>>
             ELSE PolicyResults(search_results) \o SearchPolicyHistory(notes, limit)

\* lines 99-108 of search_policies: sort by rank, highest first, keep the
\* first result of every policy, cut to limit
SortAndDedupe(results, limit) ==
    LET order  == StableDescending([i \in DOMAIN results |-> results[i].rank])
        sorted == [k \in DOMAIN order |-> results[order[k]]]
    IN  Slice(KeepFirst(sorted), 0, limit)

\* the try block of SearchService.search_policies
SearchPoliciesBody(query, limit, m, notes) ==
    SortAndDedupe(Candidates(query, limit, m, notes), limit)

\* the history items a call finds, in table order: none, one, or two of one
\* policy or of two
NoteHits == UNION {[1..n -> PolicyNumbers] : n \in 0..2}

\* SearchService.search_policies: the try block under except Exception:
\* return [].  dbOk: no statement of the call raises.  notes: the history
\* items whose note contains the query; m: the rows the expression matches,
\* an input of the calls that run the statement with an expression that can
\* match.
SearchPolicies ==
    \E query \in PolicyQueries, limit \in Limits, dbOk \in BOOLEAN :
        LET asks  == dbOk /\ StripChars(query) # <<>>
            reads == asks /\ ServicePrepareFtsQuery(query) # <<>>
        IN  \E notes \in (IF asks THEN NoteHits ELSE {<<>>}),
               m \in (IF reads THEN [DOMAIN policyIndex -> Bm25Ranks \cup {NoMatch}]
                               ELSE {[i \in DOMAIN policyIndex |-> NoMatch]}) :
                /\ LET cands == IF dbOk THEN Candidates(query, limit, m, notes) ELSE <<>>
                   IN  found' = <<[query |-> query, limit |-> limit, failed |-> ~dbOk,
                                   notes |-> notes,
                                   cands |-> cands,
                                   ret |-> SortAndDedupe(cands, limit)]>>
                /\ rebuildResult' = <<>>
                /\ ingested' = <<>>
                /\ UNCHANGED <<policies, policyIndex, files, names, suggested, parseVars,
                               indexVars, otherVars>>

(***************************************************************************)
(* SearchService.get_search_suggestions                                    *)
(***************************************************************************)

\* the columns the four queries read
Columns == {"Policy.policy_number", "Policy.carrier", "Building.name", "Agent.name"}

\* A name or a partial query is a sequence of characters: letters of both
\* cases and the underscore.
Names == {<<"a", "b">>, <<"A", "b">>, <<"b", "b">>}

Partials == {<<"a">>, <<"a", "b">>, <<"B", "b">>, <<"a", "_">>}

SuggestLimits == {1, 2, 10}

\* the code point of a character
Ord(c) == CASE c = "0" -> 48 [] c = "1" -> 49 [] c = "2" -> 50
            [] c = "A" -> 65 [] c = "B" -> 66 [] c = "_" -> 95
            [] c = "a" -> 97 [] c = "b" -> 98 [] c = "x" -> 120

\* the lower-case form of an ASCII letter
Lower(c) == CASE c = "A" -> "a" [] c = "B" -> "b" [] OTHER -> c

\* x < y of two Python strings
RECURSIVE StrLess(_, _)
StrLess(x, y) ==
    IF y = <<>> THEN FALSE
    ELSE IF x = <<>> THEN TRUE
    ELSE IF Ord(x[1]) # Ord(y[1]) THEN Ord(x[1]) < Ord(y[1])
    ELSE StrLess(Tail(x), Tail(y))

\* sorted(list(S)) of a set of strings
RECURSIVE SortedStrings(_)
SortedStrings(S) ==
    IF S = {} THEN <<>>
    ELSE LET least == CHOOSE x \in S : \A y \in S \ {x} : StrLess(x, y)
         IN  <<least>> \o SortedStrings(S \ {least})

\* column LIKE '%' || partial || '%' of SQLite, which column.contains(partial)
\* becomes: partial is not escaped, its underscore stands for any character;
\* letters match without regard to case
LikeContains(partial, name) ==
    \E i \in 1..(Len(name) - Len(partial) + 1) :
        \A k \in 1..Len(partial) :
            partial[k] = "_" \/ Lower(partial[k]) = Lower(name[i + k - 1])

\* the results a query with .limit(limit) may give: any limit of the
\* matching values, or all when they are fewer
Limited(matching, limit) ==
    {S \in SUBSET matching : Cardinality(S) = Min(limit, Cardinality(matching))}

\* a policy, building or agent with the name n in column c is added
\* (UIBackendAdapter: add_policy, add_building, add_agent)
AddName ==
    \E c \in Columns, n \in Names :
        /\ names' = [names EXCEPT ![c] = @ \cup {n}]
        /\ suggested' = <<>>
        /\ UNCHANGED <<policies, policyIndex, rebuildResult, files, ingested, found,
                       parseVars, indexVars, otherVars>>

\* what the query on column c may return
QueryColumn(c, partial_query, limit) ==
    Limited({n \in names[c] : LikeContains(partial_query, n)}, limit)

\* SearchService.get_search_suggestions
GetSearchSuggestions ==
    \E partial_query \in Partials, limit \in SuggestLimits :
        /\ IF Len(partial_query) < 2
              THEN suggested' = <<[partial |-> partial_query, limit |-> limit, ret |-> <<>>]>>
              ELSE \E policy_numbers \in QueryColumn("Policy.policy_number", partial_query, limit),
                      carriers \in QueryColumn("Policy.carrier", partial_query, limit),
                      buildings \in QueryColumn("Building.name", partial_query, limit),
                      agents \in QueryColumn("Agent.name", partial_query, limit) :
                      LET suggestions == policy_numbers \cup carriers \cup buildings \cup agents
                      IN  suggested' = <<[partial |-> partial_query, limit |-> limit,
                                          ret |-> Slice(SortedStrings(suggestions), 0, limit)]>>
        /\ UNCHANGED <<policies, policyIndex, rebuildResult, files, ingested, found,
                       names, parseVars, indexVars, otherVars>>

(***************************************************************************)
(* PDFParser: carrier normalization                                        *)
(***************************************************************************)

\* A carrier name is a sequence of characters; NullStr stands for None.
NullStr == <<"None">>

CarrierInputs == {NullStr, <<>>, <<" ">>, <<"b">>, <<"A", "b">>, <<" ", "a", "b">>,
                  <<"b", "b">>}

\* rows of carriers_map (key is the primary key) and the tables made of them
CarrierRows == {[key |-> <<"a", "b">>, value |-> <<"X">>],
                [key |-> <<"A">>, value |-> <<"Y">>]}

CarrierTables ==
    {<<>>} \cup {<<r>> : r \in CarrierRows}
           \cup {t \in CarrierRows \X CarrierRows : t[1] # t[2]}

\* config/carriers_map.json: absent, or one object
ConfigFiles == {<<>>, <<(<<[key |-> <<"b">>, value |-> <<"Z">>]>>)>>}

\* str.lower()
LowerStr(x) == [i \in DOMAIN x |-> Lower(x[i])]

\* x in y, of two Python strings
IsSubstring(x, y) ==
    \E i \in 0..(Len(y) - Len(x)) : SubSeq(y, i + 1, i + Len(x)) = x

\* d[k] = v of a dict, kept as the list of its items in insertion order
DictPut(d, k, v) ==
    IF \E i \in DOMAIN d : d[i].key = k
       THEN [i \in DOMAIN d |-> IF d[i].key = k THEN [key |-> k, value |-> v] ELSE d[i]]
       ELSE Append(d, [key |-> k, value |-> v])

\* {c.key.lower(): c.value for c in carriers}
RECURSIVE DictFromRows(_)
DictFromRows(rows) ==
    IF rows = <<>> THEN <<>>
    ELSE LET front == DictFromRows(SubSeq(rows, 1, Len(rows) - 1))
             c     == rows[Len(rows)]
         IN  DictPut(front, LowerStr(c.key), c.value)

\* the body of _load_carrier_map below its first test; dbOk: the query does
\* not raise, fileOk: reading the config file does not raise
LoadFromSource(dbOk, fileOk) ==
    IF ~dbOk THEN <<>>
    ELSE LET from_db == DictFromRows(carrierTable) IN
         IF from_db # <<>> THEN from_db
         ELSE IF configFile = <<>> THEN <<>>
         ELSE IF fileOk THEN configFile[1]
         ELSE <<>>

\* PDFParser._load_carrier_map: the map held, or else the one loaded
LoadCarrierMap_reload(cache, dbOk, fileOk) == LoadFromSource(dbOk, fileOk)

LoadCarrierMap(cache, dbOk, fileOk) ==
    IF cache # <<>> THEN cache[1] ELSE LoadFromSource(dbOk, fileOk)

\* the key _normalize_carrier looks up
CarrierKey(raw_carrier) == StripChars(LowerStr(raw_carrier))

\* the items of the map that match partially
PartialMatches(carrier_map, key) ==
    {i \in DOMAIN carrier_map :
        \/ IsSubstring(carrier_map[i].key, key)
        \/ IsSubstring(key, carrier_map[i].key)}

\* PDFParser._normalize_carrier below the test of its argument
NormalizeWith(carrier_map, raw_carrier) ==
    LET key     == CarrierKey(raw_carrier)
        exact   == {i \in DOMAIN carrier_map : carrier_map[i].key = key}
        partial == PartialMatches(carrier_map, key)
    IN  IF exact # {} THEN carrier_map[CHOOSE i \in exact : TRUE].value
        ELSE IF partial # {}
                THEN carrier_map[CHOOSE i \in partial : \A j \in partial : i <= j].value
        ELSE raw_carrier

\* not raw_carrier
Falsy(raw_carrier) == raw_carrier = NullStr \/ raw_carrier = <<>>

\* the table or the config file is changed outside of the parser
SetCarrierSource ==
    \E t \in CarrierTables, f \in ConfigFiles :
        /\ <<t, f>> # <<carrierTable, configFile>>
        /\ carrierTable' = t
        /\ configFile' = f
        /\ UNCHANGED <<carrierMap, loads, normalized, remembered,
                       parseVars, indexVars, policyVars, dateVars, metaVars, ftsVars,
                       alertVars, migrationVars>>

\* PDFParser._normalize_carrier.  remember: the call is the one the model
\* keeps for comparison with later calls.
NormalizeCarrier ==
    \E raw_carrier \in CarrierInputs, remember \in BOOLEAN :
        LET reads == ~Falsy(raw_carrier) /\ carrierMap = <<>> IN
        \E dbOk \in (IF reads THEN BOOLEAN ELSE {TRUE}),
           fileOk \in (IF reads THEN BOOLEAN ELSE {TRUE}) :
            LET carrier_map == LoadCarrierMap(carrierMap, dbOk, fileOk)
                ret  == IF Falsy(raw_carrier) THEN raw_carrier
                        ELSE NormalizeWith(carrier_map, raw_carrier)
                call == [raw |-> raw_carrier, ret |-> ret]
            IN  /\ carrierMap' = IF Falsy(raw_carrier) THEN carrierMap ELSE <<carrier_map>>
                /\ loads' = IF reads THEN loads + 1 ELSE loads
                /\ normalized' = <<call>>
                /\ remembered' = IF remembered = <<>>
                                    THEN (IF remember THEN <<[call |-> call, again |-> FALSE]>>
                                                      ELSE <<>>)
                                    ELSE IF remembered[1].call.raw = raw_carrier
                                            THEN <<[remembered[1] EXCEPT !.again = TRUE]>>
                                            ELSE remembered
                /\ UNCHANGED <<carrierTable, configFile, parseVars, indexVars, policyVars,
                               dateVars, metaVars, ftsVars, alertVars, migrationVars>>

(***************************************************************************)
(* PDFParser._parse_date                                                   *)
(***************************************************************************)

\* A date string is a sequence of characters: digits, the separators, the
\* blank, the comma, and words of letters, each word one item: the full
\* month names and a word that is no month name.
DigitChars == <<"0", "1", "2", "3", "4", "5", "6", "7", "8", "9">>
DigitSet   == {DigitChars[i] : i \in DOMAIN DigitChars}
DigitChar(n) == DigitChars[n + 1]
DigitVal(c)  == (CHOOSE i \in DOMAIN DigitChars : DigitChars[i] = c) - 1

MonthNames == [February |-> 2, March |-> 3, December |-> 12]
Words      == DOMAIN MonthNames \cup {"x"}
Separators == {"/", "-"}
Blanks     == {" "}
\* \w
WordSet    == DigitSet \cup Words

\* int(s) of a string of digits
RECURSIVE NumVal(_)
NumVal(ds) ==
    IF ds = <<>> THEN 0
    ELSE 10 * NumVal(SubSeq(ds, 1, Len(ds) - 1)) + DigitVal(ds[Len(ds)])

\* the number of characters of the class C that s has from position i on
RECURSIVE RunLen(_, _, _)
RunLen(str, i, C) ==
    IF i > Len(str) \/ str[i] \notin C THEN 0 ELSE 1 + RunLen(str, i + 1, C)

\* calendar.monthrange
IsLeap(y) == y % 4 = 0 /\ (y % 100 # 0 \/ y % 400 = 0)
DaysIn(y, m) ==
    IF m = 2 THEN (IF IsLeap(y) THEN 29 ELSE 28)
    ELSE IF m \in {4, 6, 9, 11} THEN 30 ELSE 31

\* datetime accepts the date
ValidDate(y, m, d) ==
    /\ y \in 1..9999
    /\ m \in 1..12
    /\ d \in 1..DaysIn(y, m)

\* the date strptime builds, <<>> when it raises ValueError
DateOrError(y, m, d) ==
    IF ValidDate(y, m, d) THEN <<[year |-> y, month |-> m, day |-> d]>> ELSE <<>>

\* %y: 69-99 are years of 1900, 00-68 of 2000
TwoDigitYear(n) == IF n >= 69 THEN 1900 + n ELSE 2000 + n

\* re.search of a numeric pattern (\d{..})[\/\-](\d{..})[\/\-](\d{..}): the
\* first group has one of the lengths in first and the separator follows it,
\* the second one or two digits, the third at least need and at most take
\* digits.  pos: where the match begins.
NumericGroups(str, pos, first, need, take) ==
    LET a == RunLen(str, pos, DigitSet)
        b == RunLen(str, pos + a + 1, DigitSet)
        r == RunLen(str, pos + a + b + 2, DigitSet)
        c == Min(r, take)
    IN  IF /\ a \in first
           /\ RunLen(str, pos + a, Separators) >= 1
           /\ b \in {1, 2}
           /\ RunLen(str, pos + a + b + 1, Separators) >= 1
           /\ r >= need
           THEN <<SubSeq(str, pos, pos + a - 1),
                  SubSeq(str, pos + a + 1, pos + a + b),
                  SubSeq(str, pos + a + b + 2, pos + a + b + 1 + c)>>
           ELSE <<>>

\* the groups of the leftmost match, <<>> when there is none
NumericSearch(str, first, need, take) ==
    LET hits == {i \in 1..Len(str) : NumericGroups(str, i, first, need, take) # <<>>}
    IN  IF hits = {} THEN <<>>
        ELSE NumericGroups(str, CHOOSE i \in hits : \A j \in hits : i <= j,
                           first, need, take)

\* re.search of (\w+)\s+(\d{1,2}),?\s+(\d{4}) at pos: the word, the day, the
\* year and whether the comma is there
MonthFirstGroups(str, pos) ==
    LET w  == RunLen(str, pos, WordSet)
        b1 == RunLen(str, pos + w, Blanks)
        d  == RunLen(str, pos + w + b1, DigitSet)
        c  == Min(RunLen(str, pos + w + b1 + d, {","}), 1)
        b2 == RunLen(str, pos + w + b1 + d + c, Blanks)
        y  == RunLen(str, pos + w + b1 + d + c + b2, DigitSet)
    IN  IF w >= 1 /\ b1 >= 1 /\ d \in {1, 2} /\ b2 >= 1 /\ y >= 4
           THEN <<[word  |-> SubSeq(str, pos, pos + w - 1),
                   day   |-> SubSeq(str, pos + w + b1, pos + w + b1 + d - 1),
                   comma |-> c = 1,
                   year  |-> SubSeq(str, pos + w + b1 + d + c + b2,
                                    pos + w + b1 + d + c + b2 + 3)]>>
           ELSE <<>>

\* re.search of (\d{1,2})\s+(\w+)\s+(\d{4}) at pos
DayFirstGroups(str, pos) ==
    LET d  == RunLen(str, pos, DigitSet)
        b1 == RunLen(str, pos + d, Blanks)
        w  == RunLen(str, pos + d + b1, WordSet)
        b2 == RunLen(str, pos + d + b1 + w, Blanks)
        y  == RunLen(str, pos + d + b1 + w + b2, DigitSet)
    IN  IF d \in {1, 2} /\ b1 >= 1 /\ w >= 1 /\ b2 >= 1 /\ y >= 4
           THEN <<[word  |-> SubSeq(str, pos + d + b1, pos + d + b1 + w - 1),
                   day   |-> SubSeq(str, pos, pos + d - 1),
                   comma |-> FALSE,
                   year  |-> SubSeq(str, pos + d + b1 + w + b2,
                                    pos + d + b1 + w + b2 + 3)]>>
           ELSE <<>>

\* the leftmost match of a pattern with a month name: the one with the month
\* first, or the one with the day first
LeftmostOf(str, monthFirst) ==
    LET G(x, i) == IF monthFirst THEN MonthFirstGroups(x, i) ELSE DayFirstGroups(x, i)
        hits == {i \in 1..Len(str) : G(str, i) # <<>>}
    IN  IF hits = {} THEN <<>> ELSE G(str, CHOOSE i \in hits : \A j \in hits : i <= j)

\* strptime of a match of a pattern with a month name: %B takes a full
\* month name and nothing else; commaWanted: the format has the comma
StrpNamed(match, commaWanted) ==
    LET g == match[1] IN
    IF Len(g.word) = 1 /\ g.word[1] \in DOMAIN MonthNames /\ g.comma = commaWanted
       THEN DateOrError(NumVal(g.year), MonthNames[g.word[1]], NumVal(g.day))
       ELSE <<>>

\* what a pattern gives: whether it matched, and for a match the outcome of
\* strptime, <<date>> or <<>> for ValueError
NoDateMatch == [matched |-> FALSE, date |-> <<>>]
Strptime(date) == [matched |-> TRUE, date |-> date]

\* what each of the five patterns gives for raw, in the order of the list
PatternOutcomes(raw) ==
    LET mdY == NumericSearch(raw, {1, 2}, 4, 4)
        mdy == NumericSearch(raw, {1, 2}, 2, 2)
        Ymd == NumericSearch(raw, {4}, 1, 2)
        Bd  == LeftmostOf(raw, TRUE)
        dB  == LeftmostOf(raw, FALSE)
    IN  << IF mdY = <<>> THEN NoDateMatch
              ELSE Strptime(DateOrError(NumVal(mdY[3]), NumVal(mdY[1]), NumVal(mdY[2]))),
           IF mdy = <<>> THEN NoDateMatch
              ELSE Strptime(DateOrError(TwoDigitYear(NumVal(mdy[3])), NumVal(mdy[1]),
                                        NumVal(mdy[2]))),
           IF Ymd = <<>> THEN NoDateMatch
              ELSE Strptime(DateOrError(NumVal(Ymd[1]), NumVal(Ymd[2]), NumVal(Ymd[3]))),
           IF Bd = <<>> THEN NoDateMatch ELSE Strptime(StrpNamed(Bd, TRUE)),
           IF dB = <<>> THEN NoDateMatch ELSE Strptime(StrpNamed(dB, FALSE)) >>

\* a pattern matched and its match was parsed
Parsed(outcome) == outcome.matched /\ outcome.date # <<>>

\* raw = date_str.strip()
DateRaw_untrimmed(date_str) == date_str

DateRaw(date_str) == StripChars(date_str)

\* the loop over the patterns: the first pattern that matched and whose match
\* was parsed gives the date; outs: what each pattern gives for raw
FirstParsed(raw, outs) ==
    LET wins == {k \in DOMAIN outs : Parsed(outs[k])}
    IN  IF wins = {} THEN [raw |-> raw, iso |-> <<>>]
        ELSE [raw |-> raw, iso |-> outs[CHOOSE k \in wins : \A j \in wins : k <= j].date]

\* PDFParser._parse_date; iso holds the date strftime writes, <<>> for None
ParseDateOf(date_str) ==
    IF date_str = <<>> \/ date_str = NullStr THEN [raw |-> NullStr, iso |-> <<>>]
    ELSE FirstParsed(DateRaw(date_str), PatternOutcomes(DateRaw(date_str)))

\* The date strings of the model: the dates of DateYears x DateMonths x
\* DateDays written in the forms below, and strings that hold no date.
DateYears  == {1999, 2012, 2024}
DateMonths == {2, 3, 12, 13}
DateDays   == {3, 15, 29, 31}

Pad2(n) == <<DigitChar(n \div 10), DigitChar(n % 10)>>
Digits4(n) == <<DigitChar(n \div 1000), DigitChar((n \div 100) % 10)>> \o Pad2(n % 100)
WordOf(m) == IF \E w \in DOMAIN MonthNames : MonthNames[w] = m
                THEN CHOOSE w \in DOMAIN MonthNames : MonthNames[w] = m
                ELSE "x"

WrittenMDY(y, m, d, sep) == Pad2(m) \o <<sep>> \o Pad2(d) \o <<sep>> \o Digits4(y)
WrittenMDY2(y, m, d, sep) == Pad2(m) \o <<sep>> \o Pad2(d) \o <<sep>> \o Pad2(y % 100)
WrittenYMD(y, m, d, sep) == Digits4(y) \o <<sep>> \o Pad2(m) \o <<sep>> \o Pad2(d)
WrittenMonthFirst(y, m, d, comma) ==
    <<WordOf(m), " ">> \o Pad2(d) \o (IF comma THEN <<",">> ELSE <<>>) \o <<" ">>
        \o Digits4(y)
WrittenDayFirst(y, m, d) == Pad2(d) \o <<" ", WordOf(m), " ">> \o Digits4(y)

DateInputs ==
    {<<>>, <<" ">>, <<"x", " ", "x">>, <<" ", "x", " ">>}
    \cup UNION {{WrittenMDY(y, m, d, sep), WrittenMDY2(y, m, d, sep),
                 WrittenYMD(y, m, d, sep), <<" ">> \o WrittenYMD(y, m, d, sep) \o <<" ">>} :
                    y \in DateYears, m \in DateMonths, d \in DateDays, sep \in Separators}
    \cup UNION {{WrittenMonthFirst(y, m, d, TRUE), WrittenMonthFirst(y, m, d, FALSE),
                 WrittenDayFirst(y, m, d)} :
                    y \in DateYears, m \in DateMonths, d \in DateDays}

\* PDFParser._parse_date is called with dateStr and returns
ParseDate ==
    /\ parsed = <<>>
    /\ parsed' = <<ParseDateOf(dateStr)>>
    /\ UNCHANGED <<dateStr, parseVars, indexVars, policyVars, carrierVars, metaVars,
                   ftsVars, alertVars, migrationVars>>

(***************************************************************************)
(* PDFParser._extract_metadata: carrier, dates and coverage type           *)
(***************************************************************************)

\* The text is taken as the sequence of its parts that a pattern of
\* _extract_metadata matches: a labelled date, a policy period with its two
\* dates, a carrier line, a coverage phrase (with the number of the coverage
\* pattern that matches it), or a part no pattern matches.  The keys
\* policy_number and premium depend on no other key and are left out.
MaxText == 3

Part(kind, a, b) == [kind |-> kind, a |-> a, b |-> b]

\* dates as the date patterns take them: \d{1,2}[\/\-]\d{1,2}[\/\-]\d{2,4}
LabelDate   == WrittenMDY(2024, 12, 31, "/")
PeriodDates == {WrittenMDY(2024, 3, 15, "/"), WrittenMDY2(2025, 13, 15, "-")}

\* the coverage patterns, in the order of the list; a word counts as one
\* character, the characters of the regex syntax are single
CoveragePatterns ==
    << <<"General", "\\", "s", "+", "Liability">>,
       <<"Property", "\\", "s", "+", "Insurance">>,
       <<"Umbrella", "\\", "s", "+", "(", "?", ":", "Coverage", "|", "Insurance", ")">>,
       <<"Flood", "\\", "s", "+", "Insurance">>,
       <<"Earthquake", "\\", "s", "+", "Coverage">>,
       <<"Worker", "s", "?", "\\", "s", "*", "Compensation">> >>

TextParts ==
    {Part("effective_date", LabelDate, <<>>), Part("expiration_date", LabelDate, <<>>),
     Part("issue_date", LabelDate, <<>>), Part("other", <<>>, <<>>),
     Part("carrier", <<"A", "b">>, <<>>)}
    \cup {Part("period", x, y) : x \in PeriodDates, y \in PeriodDates}
    \cup {Part("coverage", <<DigitChar(k)>>, <<>>) : k \in DOMAIN CoveragePatterns}

MetadataTexts == UNION {[1..n -> TextParts] : n \in 0..MaxText}

\* re.findall(pattern, text): the parts the pattern of the kind matches
FindAll(text, kind) == SelectSeq(text, LAMBDA part : part.kind = kind)

\* the keys of the metadata the model holds; <<>> for a key that is absent
MetadataKeys == {"carrier", "carrier_raw", "effective_date", "effective_date_raw",
                 "expiration_date", "expiration_date_raw", "issue_date", "issue_date_raw",
                 "coverage_type"}

NoMetadata == [k \in MetadataKeys |-> <<>>]

\* the date patterns in the order of the list
DatePatterns_periodFirst == <<"period", "effective_date", "expiration_date", "issue_date">>

DatePatterns == <<"effective_date", "expiration_date", "period", "issue_date">>

\* f"{date_type}_raw"
RawKey(date_type) ==
    CASE date_type = "effective_date"  -> "effective_date_raw"
      [] date_type = "expiration_date" -> "expiration_date_raw"
      [] date_type = "issue_date"      -> "issue_date_raw"

\* the body of the loop over date_patterns for one pattern
ApplyDatePattern(md, date_type, text) ==
    LET matches == FindAll(text, date_type) IN
    IF matches = <<>> THEN md
    ELSE IF date_type = "period"
            THEN [md EXCEPT !["effective_date_raw"]  = <<matches[1].a>>,
                            !["effective_date"]      = <<ParseDateOf(matches[1].a)>>,
                            !["expiration_date_raw"] = <<matches[1].b>>,
                            !["expiration_date"]     = <<ParseDateOf(matches[1].b)>>]
            ELSE [md EXCEPT ![RawKey(date_type)] = <<matches[1].a>>,
                            ![date_type]         = <<ParseDateOf(matches[1].a)>>]

\* the loop over date_patterns, from pattern number k on
RECURSIVE ApplyDatePatterns(_, _, _)
ApplyDatePatterns(md, k, text) ==
    IF k > Len(DatePatterns) THEN md
    ELSE ApplyDatePatterns(ApplyDatePattern(md, DatePatterns[k], text), k + 1, text)

\* str.lower() of a pattern: the words in lower case
LowerWord == [General |-> "general", Liability |-> "liability", Property |-> "property",
              Insurance |-> "insurance", Umbrella |-> "umbrella", Coverage |-> "coverage",
              Flood |-> "flood", Earthquake |-> "earthquake", Worker |-> "worker",
              Compensation |-> "compensation"]

LowerPattern(pat) ==
    [i \in DOMAIN pat |-> IF pat[i] \in DOMAIN LowerWord THEN LowerWord[pat[i]] ELSE pat[i]]

\* str.replace(old, new)
RECURSIVE Replace(_, _, _)
Replace(str, old, new) ==
    IF Len(str) < Len(old) THEN str
    ELSE IF SubSeq(str, 1, Len(old)) = old
            THEN new \o Replace(SubSeq(str, Len(old) + 1, Len(str)), old, new)
    ELSE <<str[1]>> \o Replace(Tail(str), old, new)

\* pattern.lower().replace('\\s+', '-').replace('?', '')
CoverageSlug(pat) ==
    Replace(Replace(LowerPattern(pat), <<"\\", "s", "+">>, <<"-">>), <<"?">>, <<>>)

\* the coverage patterns that re.search finds in the text
CoverageFound(text) ==
    {k \in DOMAIN CoveragePatterns :
        \E i \in DOMAIN text : text[i] = Part("coverage", <<DigitChar(k)>>, <<>>)}

\* PDFParser._extract_metadata; carrier_map: the map _normalize_carrier has
ExtractMetadataOf(text, carrier_map) ==
    LET carriers == FindAll(text, "carrier")
        md1 == IF carriers = <<>> THEN NoMetadata
               ELSE [NoMetadata EXCEPT
                        !["carrier_raw"] = <<carriers[1].a>>,
                        !["carrier"] = <<NormalizeWith(carrier_map, carriers[1].a)>>]
        md2 == ApplyDatePatterns(md1, 1, text)
        won == CoverageFound(text)
    IN  IF won = {} THEN md2
        ELSE [md2 EXCEPT !["coverage_type"] =
                 <<CoverageSlug(CoveragePatterns[CHOOSE k \in won : \A j \in won : k <= j])>>]

\* PDFParser._extract_metadata is called with metaText and returns; a
\* carrier found makes _normalize_carrier load the carrier map
ExtractMetadata ==
    /\ metadata = <<>>
    /\ LET reads == FindAll(metaText, "carrier") # <<>> /\ carrierMap = <<>> IN
       \E dbOk \in (IF reads THEN BOOLEAN ELSE {TRUE}) :
           LET carrier_map == LoadCarrierMap(carrierMap, dbOk, TRUE) IN
           /\ metadata' = <<ExtractMetadataOf(metaText, carrier_map)>>
           /\ carrierMap' = IF FindAll(metaText, "carrier") # <<>> THEN <<carrier_map>>
                                                                  ELSE carrierMap
           /\ loads' = IF reads THEN loads + 1 ELSE loads
    /\ UNCHANGED <<metaText, carrierTable, configFile, normalized, remembered,
                   parseVars, indexVars, policyVars, dateVars, ftsVars, alertVars,
                   migrationVars>>

(***************************************************************************)
(* SearchService._prepare_fts_query: the expression as text                *)
(***************************************************************************)

\* ' OR '.join(fts_terms) of the quoted terms
RECURSIVE JoinOr(_)
JoinOr(terms) ==
    IF terms = <<>> THEN <<>>
    ELSE IF Len(terms) = 1 THEN <<Quote>> \o terms[1] \o <<Quote>>
    ELSE <<Quote>> \o terms[1] \o <<Quote, " ", "O", "R", " ">> \o JoinOr(Tail(terms))

\* SearchService._prepare_fts_query: the string it returns
ServiceFtsText(query) ==
    LET fts_terms == ServicePrepareFtsQuery(query)
    IN  IF fts_terms = <<>> THEN <<Quote, Quote>> ELSE JoinOr(fts_terms)

\* The queries of the model: up to MaxQuery pieces, each a word of one, two
\* or three letters, a blank or a special character, written one after the
\* other.
MaxQuery == 3

QueryPieces == {<<"a">>, <<"a", "b">>, <<"a", "b", "c">>, <<" ">>, <<"-">>}
                   \cup {<<c>> : c \in SpecialChars}

RECURSIVE Concat(_)
Concat(pieces) == IF pieces = <<>> THEN <<>> ELSE pieces[1] \o Concat(Tail(pieces))

QueryInputs == {Concat(ps) : ps \in UNION {[1..n -> QueryPieces] : n \in 0..MaxQuery}}

\* SearchService._prepare_fts_query is called with queryStr and returns
PrepareServiceQuery ==
    /\ prepared = <<>>
    /\ prepared' = <<ServiceFtsText(queryStr)>>
    /\ UNCHANGED <<queryStr, parseVars, indexVars, policyVars, carrierVars, dateVars,
                   metaVars, alertVars, migrationVars>>

(***************************************************************************)
(* AlertService: renewal alerts, their emails and the scheduler            *)
(***************************************************************************)

\* The thread that calls the service's methods and the thread start_scheduler
\* starts; both work on the one session self.db, which is created with
\* autoflush=False.
Threads == {"caller", "scheduler"}

AlertPolicyIds == <<"p1", "p2">>

\* Days from today to a policy's expiration date, in the model.
DaysLeft == {5, 25, 45}

\* The alerts table and the session hold at most MaxAlerts alerts.
MaxAlerts == 3

\* expiration_date between today and today + 30 days
Expiring(days) == days >= 0 /\ days <= 30

Priority(days) == IF days <= 7 THEN "high" ELSE IF days <= 15 THEN "medium" ELSE "low"

\* the policies the first query of check_policy_renewals returns
ExpiringPolicies == SelectSeq(AlertPolicyIds, LAMBDA p : Expiring(daysLeft[p]))

\* the query for an existing alert: it reads the table, and objects that are
\* only pending in the session are not in the table
ExistingAlert(policy_id) ==
    \E i \in DOMAIN alertRows :
        alertRows[i].policy_id = policy_id /\ alertRows[i].alert_type = "renewal"

NewAlert(policy_id) ==
    [policy_id |-> policy_id, alert_type |-> "renewal",
     priority |-> Priority(daysLeft[policy_id]), is_sent |-> FALSE]

\* the ids the query of send_renewal_alerts returns
UnsentAlerts(rows) ==
    SelectSeq([i \in DOMAIN rows |-> i],
              LAMBDA i : /\ ~rows[i].is_sent
                         /\ rows[i].alert_type = "renewal"
                         /\ rows[i].priority \in {"high", "medium"})

\* self.db.commit(): the pending objects and the changed flags reach the table
Committed ==
    [i \in DOMAIN alertRows |-> IF i \in dirtySent THEN [alertRows[i] EXCEPT !.is_sent = TRUE]
                                                   ELSE alertRows[i]] \o pendingRows

IdleThread == [pc |-> "idle", todo |-> <<>>, created |-> 0]

\* check_policy_renewals is called, by the caller or, in the scheduler's
\* thread, by _scheduled_renewal_check: the expiring policies are read
CheckPolicyRenewals(t) ==
    /\ thread[t].pc = "idle"
    /\ thread' = [thread EXCEPT ![t] = [pc |-> "check", todo |-> ExpiringPolicies,
                                        created |-> 0]]
    /\ UNCHANGED <<daysLeft, agentEmail, enabled, alertRows, pendingRows, dirtySent, emailed,
                   parseVars, indexVars, policyVars, carrierVars, dateVars, metaVars, ftsVars,
                   migrationVars>>

\* one turn of the loop of check_policy_renewals
CheckPolicy(t) ==
    /\ thread[t].pc = "check"
    /\ thread[t].todo # <<>>
    /\ LET policy_id == Head(thread[t].todo)
       IN  IF ExistingAlert(policy_id)
              THEN /\ thread' = [thread EXCEPT ![t].todo = Tail(@)]
                   /\ UNCHANGED pendingRows
              ELSE /\ Len(alertRows) + Len(pendingRows) < MaxAlerts
                   /\ pendingRows' = Append(pendingRows, NewAlert(policy_id))
                   /\ thread' = [thread EXCEPT ![t].todo = Tail(@),
                                               ![t].created = @ + 1]
    /\ UNCHANGED <<daysLeft, agentEmail, enabled, alertRows, dirtySent, emailed,
                   parseVars, indexVars, policyVars, carrierVars, dateVars, metaVars, ftsVars,
                   migrationVars>>

\* the end of check_policy_renewals: commit, or rollback when the commit
\* raises; the scheduler's job goes on to send_renewal_alerts when alerts were
\* returned
CommitRenewals(t) ==
    /\ thread[t].pc = "check"
    /\ thread[t].todo = <<>>
    /\ \E ok \in BOOLEAN :
        /\ alertRows' = IF ok THEN Committed ELSE alertRows
        /\ pendingRows' = <<>>
        /\ dirtySent' = {}
        /\ thread' = [thread EXCEPT ![t] =
                         IF t = "scheduler" /\ ok /\ thread[t].created > 0 /\ enabled
                            THEN [pc |-> "send", todo |-> UnsentAlerts(Committed),
                                  created |-> 0]
                            ELSE IdleThread]
    /\ UNCHANGED <<daysLeft, agentEmail, enabled, emailed,
                   parseVars, indexVars, policyVars, carrierVars, dateVars, metaVars, ftsVars,
                   migrationVars>>

\* send_renewal_alerts is called; it returns at once when the email service is
\* not configured
SendRenewalAlerts ==
    /\ thread["caller"].pc = "idle"
    /\ enabled
    /\ thread' = [thread EXCEPT !["caller"] = [pc |-> "send", todo |-> UnsentAlerts(alertRows),
                                               created |-> 0]]
    /\ UNCHANGED <<daysLeft, agentEmail, enabled, alertRows, pendingRows, dirtySent, emailed,
                   parseVars, indexVars, policyVars, carrierVars, dateVars, metaVars, ftsVars,
                   migrationVars>>

\* one turn of the loop of send_renewal_alerts
SendAlert(t) ==
    /\ thread[t].pc = "send"
    /\ thread[t].todo # <<>>
    /\ LET id == Head(thread[t].todo)
       IN  IF ~agentEmail[alertRows[id].policy_id]
              THEN UNCHANGED <<dirtySent, emailed>>
              ELSE \E sent \in BOOLEAN :
                      /\ dirtySent' = IF sent THEN dirtySent \cup {id} ELSE dirtySent
                      /\ emailed' = IF sent THEN emailed \cup {id} ELSE emailed
    /\ thread' = [thread EXCEPT ![t].todo = Tail(@)]
    /\ UNCHANGED <<daysLeft, agentEmail, enabled, alertRows, pendingRows,
                   parseVars, indexVars, policyVars, carrierVars, dateVars, metaVars, ftsVars,
                   migrationVars>>

\* the end of send_renewal_alerts: commit, or rollback when the commit raises
CommitSent(t) ==
    /\ thread[t].pc = "send"
    /\ thread[t].todo = <<>>
    /\ \E ok \in BOOLEAN :
        /\ alertRows' = IF ok THEN Committed ELSE alertRows
        /\ pendingRows' = <<>>
        /\ dirtySent' = {}
    /\ thread' = [thread EXCEPT ![t] = IdleThread]
    /\ UNCHANGED <<daysLeft, agentEmail, enabled, emailed,
                   parseVars, indexVars, policyVars, carrierVars, dateVars, metaVars, ftsVars,
                   migrationVars>>

NoAlerts ==
    /\ alertRows = <<>>
    /\ pendingRows = <<>>
    /\ dirtySent = {}
    /\ thread = [t \in Threads |-> IdleThread]
    /\ emailed = {}

\* no policy expires and the email service is not configured
AlertIdle ==
    /\ daysLeft = [p \in {AlertPolicyIds[i] : i \in DOMAIN AlertPolicyIds} |-> 45]
    /\ agentEmail = [p \in {AlertPolicyIds[i] : i \in DOMAIN AlertPolicyIds} |-> FALSE]
    /\ enabled = FALSE
    /\ NoAlerts

\* any policies, with or without an email service
AlertInit ==
    /\ daysLeft \in [{AlertPolicyIds[i] : i \in DOMAIN AlertPolicyIds} -> DaysLeft]
    /\ agentEmail \in [{AlertPolicyIds[i] : i \in DOMAIN AlertPolicyIds} -> BOOLEAN]
    /\ enabled \in BOOLEAN
    /\ NoAlerts

(***************************************************************************)
(* MigrationRunner: src/backend/src/migrations.py                          *)
(***************************************************************************)

\* Stems of the files a migrations directory can hold in the model; every
\* file is <stem>.sql.
MigrationStems == {<<"1", "_", "a">>, <<"2", "_", "a">>, <<"1", "0", "_", "a">>,
                   <<"0", "2", "_", "b">>, <<"x", "_", "a">>}

\* file_path.stem.split('_')[0]
VersionStr(stem) == SubSeq(stem, 1, RunLen(stem, 1, {c \in {stem[i] : i \in DOMAIN stem} : c # "_"}))

\* int(version_str) does not raise
IsInt(str) == str # <<>> /\ \A i \in DOMAIN str : str[i] \in DigitSet

\* get_available_migrations: the files in the order of sorted(), those whose
\* version is not a number left out
RECURSIVE VersionsOf(_)
VersionsOf(paths) ==
    IF paths = <<>> THEN <<>>
    ELSE (IF IsInt(VersionStr(Head(paths)))
             THEN <<[version |-> NumVal(VersionStr(Head(paths))), file |-> Head(paths)]>>
             ELSE <<>>) \o VersionsOf(Tail(paths))

GetAvailableMigrations(dir) == VersionsOf(SortedStrings(dir))

\* SELECT MAX(version) FROM schema_version; 0 for an empty table and when the
\* database cannot be read
MaxVersion(S) == IF S = {} THEN 0 ELSE CHOOSE v \in S : \A w \in S : w <= v
GetCurrentVersion(dbOk) == IF dbOk THEN MaxVersion(schemaVersion) ELSE 0

NoRun == [pc |-> "idle", current |-> 0, pending |-> <<>>, todo |-> <<>>, applied |-> <<>>]

\* a file is put into the migrations directory
AddMigrationFile ==
    /\ migration.pc = "idle"
    /\ \E stem \in MigrationStems \ migrationFiles :
          migrationFiles' = migrationFiles \cup {stem}
    /\ UNCHANGED <<schemaVersion, migration, migrated,
                   parseVars, indexVars, policyVars, carrierVars, dateVars, metaVars, ftsVars,
                   alertVars>>

\* run_migrations up to its loop.  pending: the pending migrations; todo:
\* those the loop has not reached; applied: the versions apply_migration
\* recorded, in order
RunMigrations ==
    /\ migration.pc = "idle"
    /\ \E dbOk \in BOOLEAN :
        LET current_version == GetCurrentVersion(dbOk)
            available_migrations == GetAvailableMigrations(migrationFiles)
            pending_migrations ==
                SelectSeq(available_migrations, LAMBDA m : m.version > current_version)
        IN  /\ migration' = [pc |-> IF pending_migrations = <<>> THEN "idle" ELSE "apply",
                             current |-> current_version,
                             pending |-> pending_migrations,
                             todo |-> pending_migrations,
                             applied |-> <<>>]
            /\ migrated' = IF pending_migrations = <<>> THEN <<TRUE>> ELSE <<>>
    /\ UNCHANGED <<migrationFiles, schemaVersion,
                   parseVars, indexVars, policyVars, carrierVars, dateVars, metaVars, ftsVars,
                   alertVars>>

\* one turn of the loop of run_migrations: apply_migration runs the script
\* and inserts the version, which fails when the script fails or the version
\* is in the table (version is the primary key); after the last migration
\* run_migrations returns True
ApplyMigration ==
    /\ migration.pc = "apply"
    /\ LET m == Head(migration.todo)
       IN  \E scriptOk \in BOOLEAN :
              IF scriptOk /\ m.version \notin schemaVersion
                 THEN /\ schemaVersion' = schemaVersion \cup {m.version}
                      /\ migration' = [migration EXCEPT
                             !.todo = Tail(@),
                             !.applied = Append(@, m.version),
                             !.pc = IF Tail(migration.todo) = <<>> THEN "idle" ELSE "apply"]
                      /\ migrated' = IF Tail(migration.todo) = <<>> THEN <<TRUE>> ELSE <<>>
                 ELSE /\ migration' = [migration EXCEPT !.pc = "idle"]
                      /\ migrated' = <<FALSE>>
                      /\ UNCHANGED schemaVersion
    /\ UNCHANGED <<migrationFiles,
                   parseVars, indexVars, policyVars, carrierVars, dateVars, metaVars, ftsVars,
                   alertVars>>

\* an empty migrations directory and an empty schema_version table
MigrationInit ==
    /\ migrationFiles = {}
    /\ schemaVersion = {}
    /\ migration = NoRun
    /\ migrated = <<>>

ParseInit ==
    /\ pc = "idle"
    /\ doc = InitDoc
    /\ primaryResult = NoResult
    /\ result = NoResult
    /\ secondaryInvoked = FALSE
    /\ extractRuns = 0

IndexInit ==
    /\ docIndex = <<>>
    /\ store = [d \in DocIds |-> NoText]
    /\ reindexPc = "idle"
    /\ preIndex = <<>>
    /\ seen = <<>>
    /\ reindexResult = None
    /\ overlapped = FALSE
    /\ deleted = {}

PolicyInit ==
    /\ policies = {}
    /\ policyIndex = <<>>
    /\ rebuildResult = <<>>
    /\ files = <<>>
    /\ ingested = <<>>
    /\ found = <<>>
    /\ names = [c \in Columns |-> {}]
    /\ suggested = <<>>

CarrierInit ==
    /\ carrierTable = <<>>
    /\ configFile = <<>>
    /\ carrierMap = <<>>
    /\ loads = 0
    /\ normalized = <<>>
    /\ remembered = <<>>

\* no _parse_date call is under way
DateIdle ==
    /\ dateStr = <<>>
    /\ parsed = <<(<<>>)>>

\* a _parse_date call with any of the date strings
DateInit ==
    /\ dateStr \in DateInputs
    /\ parsed = <<>>

\* no _extract_metadata call is under way
MetadataIdle ==
    /\ metaText = <<>>
    /\ metadata = <<(<<>>)>>

\* an _extract_metadata call with any of the texts
MetadataInit ==
    /\ metaText \in MetadataTexts
    /\ metadata = <<>>

\* no _prepare_fts_query call is under way
FtsIdle ==
    /\ queryStr = <<>>
    /\ prepared = <<(<<>>)>>

\* a _prepare_fts_query call with any of the queries
FtsInit ==
    /\ queryStr \in QueryInputs
    /\ prepared = <<>>

OtherInit == CarrierInit /\ DateIdle /\ MetadataIdle /\ FtsIdle /\ AlertIdle /\ MigrationInit

Init == ParseInit /\ IndexInit /\ PolicyInit /\ OtherInit

ParseNext == ParseCall \/ RunPrimary \/ RunSecondary \/ ParseReturn

IndexNext == IndexDocument \/ RemoveDocument \/ Search \/ ReindexClear \/ ReindexQuery

PolicyNext == AddPolicy \/ RebuildSearchIndex \/ SearchPolicies

IngestNext == AddPolicy \/ RebuildSearchIndex \/ IngestFile

SuggestNext == AddName \/ GetSearchSuggestions

CarrierNext == SetCarrierSource \/ NormalizeCarrier

DateNext == ParseDate

MetadataNext == ExtractMetadata

FtsNext == PrepareServiceQuery

AlertNext ==
    \/ SendRenewalAlerts
    \/ \E t \in Threads : \/ CheckPolicyRenewals(t) \/ CheckPolicy(t) \/ CommitRenewals(t)
                          \/ SendAlert(t) \/ CommitSent(t)

MigrationNext == AddMigrationFile \/ RunMigrations \/ ApplyMigration

\* the parsing pipeline
ParseSpec == Init /\ [][ParseNext]_vars

\* the document index and its callers, interleaved
IndexSpec == Init /\ [][IndexNext]_vars

\* the policy index and its search
PolicySpec == Init /\ [][PolicyNext]_vars

\* the policy index and the ingestion of files
IngestSpec == Init /\ [][IngestNext]_vars

\* the search suggestions
SuggestSpec == Init /\ [][SuggestNext]_vars

\* the carrier normalization of one parser
CarrierSpec == Init /\ [][CarrierNext]_vars

\* one _parse_date call
DateCall == ParseInit /\ IndexInit /\ PolicyInit /\ CarrierInit /\ DateInit /\ MetadataIdle
                /\ FtsIdle /\ AlertIdle /\ MigrationInit

DateSpec == DateCall /\ [][DateNext]_vars

\* one SearchService._prepare_fts_query call
FtsCall == ParseInit /\ IndexInit /\ PolicyInit /\ CarrierInit /\ DateIdle /\ MetadataIdle
               /\ FtsInit /\ AlertIdle /\ MigrationInit

FtsSpec == FtsCall /\ [][FtsNext]_vars

\* one _extract_metadata call
MetadataCall == ParseInit /\ IndexInit /\ PolicyInit /\ CarrierInit /\ DateIdle
                    /\ MetadataInit /\ FtsIdle /\ AlertIdle /\ MigrationInit

MetadataSpec == MetadataCall /\ [][MetadataNext]_vars

\* the renewal alerts of one AlertService, used by a caller and by its scheduler
AlertStart == ParseInit /\ IndexInit /\ PolicyInit /\ CarrierInit /\ DateIdle /\ MetadataIdle
                  /\ FtsIdle /\ AlertInit /\ MigrationInit

AlertSpec == AlertStart /\ [][AlertNext]_vars

\* the migrations directory and the runs of one MigrationRunner
MigrationSpec == Init /\ [][MigrationNext]_vars

\* the document index under index_document, remove_document and search
EngineNext == IndexDocument \/ RemoveDocument \/ Search

EngineSpec == Init /\ [][EngineNext]_vars

\* the document index, the deletion of documents and search
DeleteNext == IndexDocument \/ RemoveDocument \/ DeletePolicy \/ Search

DeleteSpec == Init /\ [][DeleteNext]_vars

\* the document index fed with long texts
ContentNext == IndexLongDocument \/ RemoveDocument

ContentSpec == Init /\ [][ContentNext]_vars

\* The three components share no variable; the whole program interleaves them.
Next ==
    \/ ParseNext \/ IndexNext \/ DeletePolicy \/ IndexLongDocument
    \/ PolicyNext \/ IngestFile \/ SuggestNext \/ CarrierNext \/ DateNext \/ MetadataNext \/ FtsNext
    \/ AlertNext \/ MigrationNext

Spec == Init /\ [][Next]_vars

(***************************************************************************)
(* Properties of the parsing pipeline, checked under ParseSpec             *)
(***************************************************************************)

Returned == pc = "done"

\* an engine reached its encryption check and found the flag set
PrimaryDetectsEncryption   == doc.pOpen = "ok" /\ doc.pEnc
SecondaryDetectsEncryption == secondaryInvoked /\ doc.sOpen = "ok" /\ doc.sEnc

\* the primary engine ended in one of its two terminal conditions
PrimaryTerminal == doc.pOpen = "ok" /\ (doc.pEnc \/ doc.pText.blank)

\* str(e) of the exception raised inside an engine during this call
PrimaryException   == PdfplumberBody(doc).exc
SecondaryException == IF secondaryInvoked THEN Pypdf2Body(doc).exc ELSE None

\* C1: a document whose encryption flag an engine detects is returned with
\* confidence 0.0, empty text and the password-protection message, whichever
\* engine detected it.
C1_EncryptedIsPasswordProtected ==
    Returned /\ (PrimaryDetectsEncryption \/ SecondaryDetectsEncryption)
        => /\ result.confidence = 0
           /\ result.text = EmptyText
           /\ result.message = <<"password-protected PDF", "">>

\* C2: when the primary engine reports a terminal condition, parse_pdf
\* returns that reason without invoking the secondary engine and without
\* running the field recognizer.
C2_TerminalReturnsImmediately ==
    Returned /\ PrimaryTerminal
        => /\ ~secondaryInvoked
           /\ extractRuns = 0
           /\ result.message = primaryResult.message

\* C3 as stated: after a failure at any stage the result has confidence 0.0,
\* empty text and the message of that exception in metadata.error and in
\* message.
C3_EveryFailureReported ==
    Returned =>
        \A e \in {PrimaryException, SecondaryException} \ {None} :
            /\ result.confidence = 0
            /\ result.text = EmptyText
            /\ result.error = e
            /\ result.message[2] = e

\* C3 amended: parse_pdf always returns a result; after an exception at any
\* stage the result has confidence 0.0 and empty text; an exception in the
\* primary engine leads to the secondary engine, and an exception in the
\* secondary engine is the one reported in metadata.error and in message.
C3_FailureOfLastStageReported ==
    Returned =>
        /\ result \in [error : STRING, text : Texts, confidence : 0..1000,
                       message : STRING \X STRING]
        /\ PrimaryException # None =>
              secondaryInvoked /\ result.confidence = 0 /\ result.text = EmptyText
        /\ SecondaryException # None =>
              /\ result.confidence = 0
              /\ result.text = EmptyText
              /\ result.error = SecondaryException
              /\ result.message[2] = SecondaryException

\* the file is missing: both engines raised, and the call returned
C3_Witness ==
    /\ Returned
    /\ PrimaryException = NoSuchFile
    /\ SecondaryException = NoSuchFile
    /\ result.error = NoSuchFile

\* C4: when the primary engine extracted text of length at most 50, the
\* secondary engine has been invoked by the time parse_pdf returns.
C4_SecondaryAttempted ==
    Returned /\ doc.pOpen = "ok" /\ ~doc.pEnc /\ doc.pText.len <= 50
        => secondaryInvoked

\* the primary engine ended without exception on text of length 1
C4_Witness ==
    /\ Returned
    /\ doc.pOpen = "ok" /\ ~doc.pEnc /\ doc.pText.len = 1
    /\ PrimaryException = None
    /\ secondaryInvoked

\* the confidence section 4.5 gives to L characters from the primary engine
PrimaryConfidence(L) == IF L > 50 THEN Min(1000, L) ELSE 0

\* C5: text of length L extracted by the primary engine is returned with
\* confidence min(1.0, L/1000) when L > 50 and 0.0 otherwise.
C5_ConfidenceFromLength ==
    Returned /\ PrimaryExtracts(doc)
        => result.confidence = PrimaryConfidence(doc.pText.len)

(***************************************************************************)
(* Properties of the document index, checked under IndexSpec               *)
(***************************************************************************)

\* number of rows for document d
EntriesIn(rows, d) == Cardinality({i \in DOMAIN rows : rows[i].document_id = d})

\* number of rows of document_search for document d
Entries(d) == EntriesIn(docIndex, d)

\* the index a rebuild is to produce: one row for every active document
RebuiltIndex ==
    LET ids == SortedSeq(Active)
    IN  [i \in 1..Len(ids) |->
            [document_id |-> ids[i], content |-> CleanTextForIndexing(store[ids[i]])]]

\* C6: after any sequence of index_document and remove_document calls the
\* index holds at most one entry for each document_id.
C6_OneEntryPerDocument == \A d \in DocIds : Entries(d) <= 1

\* C7: a search that runs while a rebuild is in progress gets the answer of
\* the index as it was before the rebuild or of the complete rebuilt index.
C7_SearchSeesWholeIndex ==
    reindexPc # "idle" /\ seen # <<>> /\ seen[1].out.error = None
        => \/ seen[1].out.ret =
                  SearchResult(preIndex, seen[1].q, seen[1].limit, seen[1].offset)
           \/ seen[1].out.ret =
                  SearchResult(RebuiltIndex, seen[1].q, seen[1].limit, seen[1].offset)

\* C8: once a rebuild and the index_document and remove_document calls that
\* ran inside it have all completed, the index holds exactly one entry for
\* every active document and none for a removed one.
C8_WritersSerialized ==
    reindexPc = "idle" /\ reindexResult # None /\ overlapped
        => \A d \in DocIds : Entries(d) = IF d \in Active THEN 1 ELSE 0

\* the caller of a search cannot tell its outcome from that of a search
\* that matched nothing
LooksLikeNoMatch(out) == out.exc = None /\ out.ret = <<>>

\* C11: a query that failed on a database error is reported to its caller
\* as failed: its outcome differs from that of a query that matched nothing.
C11_FailedQueryReported ==
    seen # <<>> /\ seen[1].out.error \in DbErrors
        => ~LooksLikeNoMatch(seen[1].out)

\* the documents removed and not indexed again since
Removed == {d \in DocIds : store[d] = NoText}

\* C12: no query, whatever its text, limit and offset, returns a document
\* that was removed and has not been indexed again.
C12_RemovedNotReturned ==
    \A q \in Queries, limit \in Limits, offset \in Offsets :
        ResultIds(SearchResult(docIndex, q, limit, offset)) \cap Removed = {}

\* a search returned document d, which was removed afterwards
C12_Witness ==
    /\ seen # <<>>
    /\ \E d \in ResultIds(seen[1].out.ret) : d \in Removed /\ Entries(d) = 0

\* a step of remove_document(d): the only one that leaves d without text,
\* adds no row and is not a search
RemoveStep(d) ==
    /\ store' = [store EXCEPT ![d] = NoText]
    /\ Len(docIndex') <= Len(docIndex)
    /\ seen' = seen

\* the rows of the other documents
OtherRows(rows, d) == SelectSeq(rows, LAMBDA r : r.document_id # d)

\* C13: remove_document(d) leaves no entry for d and every entry of the other
\* documents as it was; when d has no entry the index is unchanged, so that
\* removing twice leaves the index of removing once.
C13_RemoveIdempotent ==
    [][\A d \in DocIds :
          RemoveStep(d) =>
              /\ EntriesIn(docIndex', d) = 0
              /\ OtherRows(docIndex', d) = OtherRows(docIndex, d)
              /\ (Entries(d) = 0 => docIndex' = docIndex)]_vars

\* a document a search had returned was removed and the rows of another
\* document are still there
C13_Witness ==
    /\ seen # <<>>
    /\ \E d \in ResultIds(seen[1].out.ret) : d \in Removed
    /\ docIndex # <<>>

\* C15: after delete_policy has completed for a document, with hard_delete
\* true or false, the index holds no entry for it.
C15_DeletedNotIndexed == \A d \in deleted : Entries(d) = 0

\* the query is empty or made of blanks
BlankQuery(q) == StripChars(q) = <<>>

\* C16: a search with an empty or blank query returns the empty list and
\* raises nothing, whatever the index holds: SearchEngine.search in every
\* call made, search_policies for every input it can be called with.
C16_BlankQueryEmpty ==
    /\ seen # <<>> /\ BlankQuery(seen[1].q)
          => seen[1].out.exc = None /\ seen[1].out.ret = <<>>
    /\ \A q \in PolicyQueries :
          BlankQuery(q) =>
              \A limit \in Limits, notes \in NoteHits,
                 m \in [DOMAIN policyIndex -> Bm25Ranks \cup {NoMatch}] :
                  SearchPoliciesBody(q, limit, m, notes) = <<>>

\* a blank query was answered while the index held a document
C16_Witness ==
    /\ seen # <<>>
    /\ seen[1].q = <<" ", " ">>
    /\ seen[1].out.error = SyntaxError
    /\ docIndex # <<>>

\* C19: the content of every row index_document stored is at most 50,000
\* characters long.
C19_ContentWithinLimit ==
    \A i \in DOMAIN docIndex : TextLen(docIndex[i].content) <= ContentLimit

(***************************************************************************)
(* Properties of the policy index, checked under PolicySpec                *)
(***************************************************************************)

\* number of rows of policy_search for policy p
PolicyEntries(p) == Cardinality({i \in DOMAIN policyIndex : policyIndex[i].policy_id = p})

RebuildReturnedSuccess == rebuildResult # <<>> /\ rebuildResult[1].success

\* C14: after ingest_file has returned success for a PDF that is linked to a
\* policy on record and has text, the index holds a row of that policy with
\* the text of the file.
C14_IngestedIsIndexed ==
    /\ ingested # <<>>
    /\ ingested[1].success /\ ingested[1].pdf
    /\ ingested[1].policy_id \in policies
    /\ PrimaryExtracts(ingested[1].doc)
    => \E i \in DOMAIN policyIndex :
           /\ policyIndex[i].policy_id = ingested[1].policy_id
           /\ ingested[1].file_id \in policyIndex[i].files

\* the candidates of policy p of one tier
TierCandidates(p, tier) ==
    {i \in DOMAIN found[1].cands :
        found[1].cands[i].policy_id = p /\ found[1].cands[i].type = tier}

\* C17: every policy appears at most once in the list search_policies
\* returns, and when a policy result and a history result of one policy have
\* the same rank, a history result of that policy is not the one returned.
C17_OnePerPolicy ==
    found # <<>> =>
        LET ret == found[1].ret IN
        /\ \A i, j \in DOMAIN ret : i # j => ret[i].policy_id # ret[j].policy_id
        /\ \A k \in DOMAIN ret :
              (\E i \in TierCandidates(ret[k].policy_id, "policy"),
                  j \in TierCandidates(ret[k].policy_id, "history") :
                     found[1].cands[i].rank = found[1].cands[j].rank)
                  => ret[k].type = "policy"

\* a policy found by the index and by a note is returned once
C17_Witness ==
    /\ found # <<>>
    /\ \E k \in DOMAIN found[1].ret :
          /\ TierCandidates(found[1].ret[k].policy_id, "policy") # {}
          /\ TierCandidates(found[1].ret[k].policy_id, "history") # {}

\* C18: both searches return their results with the lower bm25 first.
C18_LowerScoreFirst ==
    /\ seen # <<>> =>
          \A i, j \in DOMAIN seen[1].out.ret :
              i < j => seen[1].out.ret[i].score <= seen[1].out.ret[j].score
    /\ found # <<>> =>
          \A i, j \in DOMAIN found[1].ret :
              /\ i < j
              /\ found[1].ret[i].type = "policy" /\ found[1].ret[j].type = "policy"
              => found[1].ret[i].rank <= found[1].ret[j].rank

\* name contains partial, letters compared without regard to case
ContainsText(partial, name) ==
    \E i \in 1..(Len(name) - Len(partial) + 1) :
        \A k \in 1..Len(partial) : Lower(partial[k]) = Lower(name[i + k - 1])

\* C20: get_search_suggestions returns a list without duplicates, in
\* ascending order, of at most limit elements, each of which contains the
\* partial text without regard to case; for a partial text of fewer than two
\* characters the list is empty.
C20_SuggestionsContainPartial ==
    suggested # <<>> =>
        LET ret == suggested[1].ret IN
        /\ \A i, j \in DOMAIN ret : i < j => StrLess(ret[i], ret[j])
        /\ Len(ret) <= suggested[1].limit
        /\ \A i \in DOMAIN ret : ContainsText(suggested[1].partial, ret[i])
        /\ Len(suggested[1].partial) < 2 => ret = <<>>

\* C9: after a rebuild has returned successfully the index holds exactly one
\* entry for every policy on record and no entry for anything else.
C9_RebuildLeavesExactIndex ==
    RebuildReturnedSuccess
        => \A p \in PolicyNumbers : PolicyEntries(p) = IF p \in policies THEN 1 ELSE 0

\* C10: a rebuild in which the insert of some policy failed reports failure;
\* one that reports success has indexed every policy.
C10_SuccessMeansAllIndexed ==
    RebuildReturnedSuccess
        => /\ rebuildResult[1].indexed = Cardinality(policies)
           /\ \A p \in policies : PolicyEntries(p) >= 1

(***************************************************************************)
(* Properties of the carrier normalization, checked under CarrierSpec      *)
(***************************************************************************)

\* no key of the map equals, contains or is contained in the key of raw
NoKeyMatches(carrier_map, raw) ==
    \A i \in DOMAIN carrier_map :
        /\ carrier_map[i].key # CarrierKey(raw)
        /\ ~IsSubstring(carrier_map[i].key, CarrierKey(raw))
        /\ ~IsSubstring(CarrierKey(raw), carrier_map[i].key)

\* raw consists of blanks
WhitespaceOnly(raw) == raw # NullStr /\ raw # <<>> /\ StripChars(raw) = <<>>

\* C21: _normalize_carrier returns an empty or null argument unchanged, and
\* returns the argument unchanged when no key of the map equals, contains or
\* is contained in its lowercased trimmed form, a whitespace-only argument
\* included.
C21_NeverDestructive ==
    normalized # <<>> =>
        LET raw == normalized[1].raw
            ret == normalized[1].ret
        IN  /\ Falsy(raw) => ret = raw
            /\ (~Falsy(raw) /\ NoKeyMatches(carrierMap[1], raw)) => ret = raw
            /\ WhitespaceOnly(raw) => ret = raw

\* C22: a call of _normalize_carrier returns what an earlier call with the
\* same argument returned, and the parser has read the source of its map at
\* most once.
C22_SameInputSameValue ==
    /\ loads <= 1
    /\ (remembered # <<>> /\ normalized # <<>>
           /\ normalized[1].raw = remembered[1].call.raw)
          => normalized[1].ret = remembered[1].call.ret

\* a call was repeated after the source had changed so that a map loaded
\* now would give another answer
C22_Witness ==
    /\ remembered # <<>> /\ remembered[1].again
    /\ normalized # <<>> /\ normalized[1].raw = remembered[1].call.raw
    /\ ~Falsy(normalized[1].raw)
    /\ NormalizeWith(LoadFromSource(TRUE, TRUE), normalized[1].raw) # normalized[1].ret

(***************************************************************************)
(* Properties of _parse_date, checked under DateSpec                       *)
(***************************************************************************)

\* no pattern matches str, or every pattern that matches fails to parse
NothingParses(str) ==
    \A k \in DOMAIN PatternOutcomes(str) : ~Parsed(PatternOutcomes(str)[k])

C26_YearFirstKeepsDate ==
    parsed # <<>> =>
        \A y \in DateYears, m \in DateMonths, d \in DateDays, sep \in Separators :
            (ValidDate(y, m, d) /\ StripChars(dateStr) = WrittenYMD(y, m, d, sep))
                => parsed[1].iso = <<[year |-> y, month |-> m, day |-> d]>>

(***************************************************************************)
(* Properties of _extract_metadata, checked under MetadataSpec             *)
(***************************************************************************)

\* the first policy period of the text
FirstPeriod == FindAll(metaText, "period")[1]

\* C24: when the text holds a policy period X to Y, effective_date is what
\* _parse_date makes of X and expiration_date what it makes of Y, whatever
\* labelled effective and expiration dates the text holds and wherever.
C24_PeriodTakesPrecedence ==
    (metadata # <<>> /\ FindAll(metaText, "period") # <<>>)
        => /\ metadata[1]["effective_date"] = <<ParseDateOf(FirstPeriod.a)>>
           /\ metadata[1]["effective_date_raw"] = <<FirstPeriod.a>>
           /\ metadata[1]["expiration_date"] = <<ParseDateOf(FirstPeriod.b)>>
           /\ metadata[1]["expiration_date_raw"] = <<FirstPeriod.b>>

\* a text with a policy period followed by a labelled effective date and a
\* labelled expiration date of other values
C24_Witness ==
    /\ metadata # <<>>
    /\ Len(metaText) = 3
    /\ metaText[1].kind = "period"
    /\ metaText[2].kind = "effective_date" /\ metaText[2].a # metaText[1].a
    /\ metaText[3].kind = "expiration_date" /\ metaText[3].a # metaText[1].b
    /\ metadata[1]["effective_date"][1].raw = metaText[1].a

\* lower-case words joined by single hyphens
SlugChars == {LowerWord[w] : w \in DOMAIN LowerWord} \cup {"s"}
IsSlug(v) ==
    /\ v # <<>>
    /\ \A i \in DOMAIN v : v[i] \in SlugChars \cup {"-"}
    /\ v[1] # "-" /\ v[Len(v)] # "-"
    /\ \A i \in 1..(Len(v) - 1) : ~(v[i] = "-" /\ v[i + 1] = "-")
    /\ \E i \in DOMAIN v : v[i] = "-"

\* C25: the coverage_type of a text in which a coverage pattern is found is
\* a slug: lower-case words joined by hyphens, with no regex syntax in it.
C25_CoverageTypeIsSlug ==
    (metadata # <<>> /\ metadata[1]["coverage_type"] # <<>>)
        => IsSlug(metadata[1]["coverage_type"][1])

(***************************************************************************)
(* Properties of the policy search, checked under PolicySpec (continued)   *)
(***************************************************************************)

\* the history items the history query gives the call: the first limit of
\* those whose note contains the query and whose policy is on record
NoteMatches ==
    {found[1].notes[i] : i \in 1..Min(found[1].limit, Len(found[1].notes))} \cap policies

\* C27: a policy with a history note that contains the query is among the
\* results of search_policies also when the index query matches no row.
C27_NotesFoundWithoutIndexMatch ==
    (found # <<>> /\ ~found[1].failed /\ StripChars(found[1].query) # <<>>)
        => \A p \in NoteMatches : \E k \in DOMAIN found[1].ret : found[1].ret[k].policy_id = p

(***************************************************************************)
(* Properties of SearchService._prepare_fts_query, checked under FtsSpec   *)
(***************************************************************************)

\* the characters that end a term of the query
TermEnds == SpecialChars \cup {" "}

\* the query has a term of more than two characters
HasLongTerm(query) ==
    \E i \in DOMAIN query :
        RunLen(query, i, {query[k] : k \in DOMAIN query} \ TermEnds) > 2

\* txt is a list of quoted terms of more than two characters each, joined
\* by ' OR '
RECURSIVE IsOrList(_)
IsOrList(txt) ==
    /\ Len(txt) >= 5
    /\ txt[1] = Quote
    /\ LET n == RunLen(txt, 2, {txt[k] : k \in DOMAIN txt} \ (TermEnds \cup {Quote}))
       IN  /\ n > 2
           /\ Len(txt) >= n + 2
           /\ txt[n + 2] = Quote
           /\ \/ Len(txt) = n + 2
              \/ /\ Len(txt) >= n + 6
                 /\ SubSeq(txt, n + 3, n + 6) = <<" ", "O", "R", " ">>
                 /\ IsOrList(SubSeq(txt, n + 7, Len(txt)))

\* C28: SearchService._prepare_fts_query returns '""' or the terms of more
\* than two characters, each in double quotes, joined by ' OR ', without
\* wildcard; what it returns holds none of ( ) * ^ : ~, and it is '""' for a
\* query without a term of more than two characters.
C28_QuotedTermsOnly ==
    prepared # <<>> =>
        LET out == prepared[1] IN
        /\ out = <<Quote, Quote>> \/ IsOrList(out)
        /\ \A i \in DOMAIN out : out[i] \notin (SpecialChars \ {Quote})
        /\ ~HasLongTerm(queryStr) => out = <<Quote, Quote>>
        /\ HasLongTerm(queryStr) => IsOrList(out)

\* a query with a special character between two terms of three characters
C28_Witness ==
    /\ prepared # <<>>
    /\ \E i \in DOMAIN queryStr : queryStr[i] \in SpecialChars \ {Quote}
    /\ prepared[1] = <<Quote, "a", "b", "c", Quote, " ", "O", "R", " ",
                       Quote, "a", "b", "c", Quote>>


(***************************************************************************)
(* Properties of the renewal alerts, checked under AlertSpec               *)
(***************************************************************************)

RenewalAlertsOf(policy_id) ==
    {i \in DOMAIN alertRows :
        alertRows[i].policy_id = policy_id /\ alertRows[i].alert_type = "renewal"}

\* C29: whatever runs of check_policy_renewals were made, by callers and by
\* the scheduler, the alerts table holds at most one alert of type "renewal"
\* per policy, and an alert whose is_sent flag is set is one for which
\* send_email returned True.
C29_OneRenewalAlertPerPolicy ==
    /\ \A i \in DOMAIN AlertPolicyIds : Cardinality(RenewalAlertsOf(AlertPolicyIds[i])) <= 1
    /\ \A i \in DOMAIN alertRows : alertRows[i].is_sent => i \in emailed

(***************************************************************************)
(* Properties of the migrations, checked under MigrationSpec               *)
(***************************************************************************)

StrictlyAscending(versions) ==
    \A i, j \in DOMAIN versions : i < j => versions[i] < versions[j]

VersionsIn(migrations) == [i \in DOMAIN migrations |-> migrations[i].version]

\* C30: a run of run_migrations applies versions in strictly ascending order,
\* each greater than the schema version the run started from and none
\* recorded before; it has applied exactly the pending migrations before the
\* one that failed when it returns False, and every pending migration when it
\* returns True.
C30_AscendingUntilFailure ==
    /\ StrictlyAscending(migration.applied)
    /\ \A i \in DOMAIN migration.applied : migration.applied[i] > migration.current
    /\ migration.applied
          = SubSeq(VersionsIn(migration.pending), 1, Len(migration.applied))
    /\ migrated = <<TRUE>> => migration.applied = VersionsIn(migration.pending)
    /\ migrated = <<FALSE>> => Len(migration.applied) < Len(migration.pending)

=============================================================================
